---- MODULE Spec2Model ----
(***************************************************************************)
(* The configuration synchronisation engine of agent-inbox: the React hook *)
(* usePersistentConfig (src/src/app/test-drafts/layout.tsx), the browser   *)
(* localStorage slots it writes, and the /api/config endpoint it talks to  *)
(* (src/src/app/api/config/route.ts, src/src/lib/config-storage.ts).       *)
(*                                                                         *)
(* React 18 semantics are used: the state setters called by one event     *)
(* (a UI call, a timer callback, the continuation of a fetch) are batched  *)
(* into one render, and the effects whose dependencies changed run right   *)
(* after that render (all cleanups first, then the effect bodies in source *)
(* order).  One action of the model is one such event together with the    *)
(* render and the effects it causes.  Wall-clock time is not modelled: an  *)
(* armed timer may fire at any moment, a request may complete at any       *)
(* moment.  The server handles a request and the reply reaches the client  *)
(* in one step.                                                            *)
(*                                                                         *)
(* An optional value (a field that may be undefined, a localStorage slot   *)
(* that may be missing) is a sequence of length 0 or 1.                    *)
(***************************************************************************)
EXTENDS Integers, Sequences, FiniteSets, TLC

Absent == <<>>
Some(v) == <<v>>

\* ------------------------------------------------------------------ bounds
MaxUpdates == 2       \* updateConfig calls in one behaviour
MaxStale == 1         \* superseded initialize() runs awaiting the same kind of reply
MaxSyncLoads == 1     \* periodic pulls in flight at the same time

\* ------------------------------------------------------------ documents
DocKeys == {"version", "lastUpdated", "langsmithApiKey", "inboxes", "preferences", "drafts"}

EmptyObj == [k \in {} |-> Absent]

Doc(ver, upd, key, inb, prefs, dr) ==
  [version |-> ver, lastUpdated |-> upd, langsmithApiKey |-> key,
   inboxes |-> inb, preferences |-> prefs, drafts |-> dr]

InboxA == [id |-> "a", name |-> "Inbox A"]
DefaultInbox == [id |-> "default", name |-> "Default Inbox"]

PrefsDark == [theme |-> "dark"]
PrefsFilter == [lastSelectedFilter |-> "idle"]
PrefsAll == [lastSelectedFilter |-> "all"]
\* Draft content is a sequence of characters; lastSaved is a time.
DraftsT1 == [t1 |-> [content |-> <<"h", "i">>, lastSaved |-> 0]]

\* The four document slots of STORAGE_KEYS (LAST_SYNC is kept in lastSync).
STORAGE_KEYS == {"inboxes", "langsmithApiKey", "preferences", "drafts"}

Slots(inb, key, prefs, dr) ==
  [inboxes |-> inb, langsmithApiKey |-> key, preferences |-> prefs, drafts |-> dr]

\* A slot holding text that JSON.parse rejects.
Unparsable == <<"not", "json">>

EmptyCache == Slots(Absent, Absent, Absent, Absent)
CacheA == Slots(Some(<<InboxA>>), Some("k0"), Some(PrefsDark), Absent)

\* A document an earlier session pushed, after its user had cleared the API key.
RemoteDoc ==
  Doc(Some("1.0.0"), Some("ts"), Some(""), Some(<<InboxA>>), Some(PrefsFilter), Some(DraftsT1))

\* What the page finds when it is opened: <<localStorage, CONFIG_FILE, USE_SERVER_STORAGE>>.
Scenarios ==
  { <<EmptyCache, Absent, FALSE>>,
    <<CacheA, Absent, TRUE>>,
    <<CacheA, Some(RemoteDoc), TRUE>> }

\* The partial documents the UI passes to updateConfig.
Updates ==
  { [preferences |-> Some(PrefsAll)],
    [langsmithApiKey |-> Some("")] }

\* How a request can end, as seen by fetch().
Outcomes == {"ok", "neterr", "status500", "malformed"}

VARIABLES
  config,            \* useState config
  serverEnabled,     \* useState serverEnabled
  isLoading,         \* useState isLoading
  isSaving,          \* useState isSaving
  lastSync,          \* useState lastSync / LAST_SYNC slot: TRUE when a date is held
  hasInitialSynced,  \* useRef
  hasPendingSave,    \* useRef
  saveTimeoutRef,    \* useRef: Absent, or Some(c): the id of the timer whose callback closes over c
  saveCleanup,       \* did the last run of the save effect return its cleanup
  timers,            \* armed debounce timers, each named by the config its callback closes over
  syncInterval,      \* is the setInterval(syncWithServer) armed
  initRun,           \* the latest run of initialize(): "probing", "loading" or "done"
  staleProbes,       \* superseded runs (mounted = false) awaiting checkServerStatus, see InitializeEffect
  staleLoads,        \* superseded runs (mounted = false) awaiting loadFromServer
  syncLoads,         \* loadFromServer calls of syncWithServer in flight
  pushes,            \* bodies of the saveToServer requests in flight, in the order sent
  cache,             \* localStorage slots
  useServerStorage,  \* USE_SERVER_STORAGE
  file,              \* CONFIG_FILE: Absent or Some(document)
  updateCalls,       \* number of updateConfig calls made
  lastCall,          \* the updateConfig call the last step handled, Absent after any other step
  unpushed,          \* an updateConfig call was made and no push of the present config has succeeded since
  draftTimers,       \* useDraftStorage: the pending setTimeout callbacks of saveDraft
  autoSaveTimeouts,  \* useDraftStorage: autoSaveTimeouts.current, thread id -> its timer
  clock,             \* useDraftStorage: the time, in seconds since the page was opened
  lastDraftCall,     \* the saveDraft or discardDraft call the last useDraftStorage step handled
  mounted,           \* useDraftStorage: the component using the hook is mounted
  agentInboxes,      \* useInboxes: the inbox list stored in the browser, parsed
  tmpFile,           \* `${CONFIG_FILE}.tmp`: Absent, Some(document) or Truncated
  handlers,          \* server: the calls that are waiting for a file operation
  lastResponse,      \* server: what the call that ended in the last step returned
  seedings,          \* server: how often a GET stored the environment defaults (0, 1, many)
  popoverConfig      \* useState config of the usePersistentConfig() call of SettingsPopover

vars == <<config, serverEnabled, isLoading, isSaving, lastSync, hasInitialSynced,
          hasPendingSave, saveTimeoutRef, saveCleanup, timers, syncInterval,
          initRun, staleProbes, staleLoads, syncLoads, pushes, cache,
          useServerStorage, file, updateCalls, lastCall, unpushed,
          draftTimers, autoSaveTimeouts, clock, lastDraftCall, mounted,
          agentInboxes, tmpFile, handlers, lastResponse, seedings, popoverConfig>>

draftVars == <<draftTimers, autoSaveTimeouts, clock, lastDraftCall, mounted>>

inboxVars == <<agentInboxes>>

serverVars == <<tmpFile, handlers, lastResponse, seedings>>

\* The state of the other callers of usePersistentConfig().
callerVars == <<popoverConfig>>

\* What the engine's own steps leave alone.
auxVars == <<draftVars, inboxVars, serverVars, callerVars>>

\* No call is being handled by the server and nothing is left of one.
Quiet == tmpFile = Absent /\ handlers = {} /\ lastResponse = Absent /\ seedings = 0

Call(updates, immediate) == Some([updates |-> updates, immediate |-> immediate])

\* ------------------------------------------------------- local cache store
Truthy(opt) == opt # Absent /\ opt # Some("")

\* return { inboxes: [] }
ZeroDoc == Doc(Absent, Absent, Absent, Some(<<>>), Absent, Absent)

\* The slots loadFromLocalStorage hands to JSON.parse.
ParsedSlots == {"inboxes", "preferences", "drafts"}

\* The object built in the try block of loadFromLocalStorage.
loadFromLocalStorageTry(c) ==
  Doc(Absent, Absent,
      IF Truthy(c.langsmithApiKey) THEN c.langsmithApiKey ELSE Absent,
      IF c.inboxes # Absent THEN c.inboxes ELSE Some(<<>>),
      IF c.preferences # Absent THEN c.preferences ELSE Some(EmptyObj),
      IF c.drafts # Absent THEN c.drafts ELSE Some(EmptyObj))

\* loadFromLocalStorage that replaces only the slot that fails to parse.
loadFromLocalStoragePerSlot(c) ==
  loadFromLocalStorageTry(
    [k \in STORAGE_KEYS |-> IF c[k] = Unparsable THEN Absent ELSE c[k]])

\* loadFromLocalStorage: JSON.parse throws on an unparsable slot and the
\* catch returns { inboxes: [] }.
loadFromLocalStorage(c) ==
  IF \E k \in ParsedSlots : c[k] = Unparsable
    THEN ZeroDoc
    ELSE loadFromLocalStorageTry(c)

\* saveToLocalStorage that writes no drafts slot.
saveToLocalStorageNoDrafts(d) ==
  Slots(d.inboxes,
        IF Truthy(d.langsmithApiKey) THEN d.langsmithApiKey ELSE Absent,
        d.preferences,
        cache.drafts)

saveToLocalStorage(d) ==
  Slots(d.inboxes,
        IF Truthy(d.langsmithApiKey) THEN d.langsmithApiKey ELSE Absent,
        d.preferences,
        d.drafts)

\* ------------------------------------------------------------ remote store
getEnvDefaultConfig ==
  [inboxes |-> Some(<<DefaultInbox>>), langsmithApiKey |-> Absent,
   preferences |-> Some(EmptyObj)]

saveConfig(d) ==
  [d EXCEPT !.version = IF Truthy(d.version) THEN d.version ELSE Some("1.0.0"),
            !.lastUpdated = Some("ts")]

Reply(k, o, e, c) == [kind |-> k, ok |-> o, enabled |-> e, config |-> c]

\* GET /api/config: the reply and the file afterwards.
GET(f, enabled) ==
  IF ~enabled THEN [reply |-> Reply("json", TRUE, FALSE, Absent), file |-> f]
  ELSE IF f # Absent THEN [reply |-> Reply("json", TRUE, TRUE, f), file |-> f]
  ELSE LET envDefaults == getEnvDefaultConfig
           initialConfig == Doc(Some("1.0.0"), Some("ts"), envDefaults.langsmithApiKey,
                                envDefaults.inboxes, envDefaults.preferences, Absent)
           saved == saveConfig(initialConfig)
       IN [reply |-> Reply("json", TRUE, TRUE, Some(saved)), file |-> Some(saved)]

ValidInboxes(inb) ==
  /\ inb # Absent
  /\ \A i \in 1..Len(inb[1]) : inb[1][i].id # "" /\ inb[1][i].name # ""

\* POST /api/config: the reply and the file afterwards.
POST(f, enabled, body) ==
  IF ~enabled THEN [reply |-> Reply("json", TRUE, FALSE, Absent), file |-> f]
  ELSE IF ~ValidInboxes(body.inboxes)
       THEN [reply |-> Reply("json", FALSE, FALSE, Absent), file |-> f]
  ELSE LET saved == saveConfig(body)
       IN [reply |-> Reply("json", TRUE, TRUE, Some(saved)), file |-> Some(saved)]

\* What fetch() hands the client for an outcome of the request.
Deliver(outcome, served) ==
  CASE outcome = "ok" -> served
    [] outcome = "status500" -> Reply("json", FALSE, FALSE, Absent)
    [] outcome = "malformed" -> Reply("malformed", TRUE, FALSE, Absent)
    [] OTHER -> Reply("neterr", FALSE, FALSE, Absent)

\* ------------------------------------------------------- the hook's fetches
\* checkServerStatus: any failure of the fetch or of response.json() is caught.
checkServerStatus(reply) == reply.kind = "json" /\ reply.enabled

Outcome(r, a) == [result |-> r, applied |-> a]

\* The try block of loadFromServer.  result: what it returns ("throws": an
\* exception leaves the block); applied: the document handed to setConfig.
loadFromServerTry(reply) ==
  IF reply.kind = "neterr" THEN Outcome("throws", Absent)
  ELSE IF ~reply.ok THEN Outcome("false", Absent)
  ELSE IF reply.kind = "malformed" THEN Outcome("throws", Absent)
  ELSE IF ~reply.enabled THEN Outcome("false", Absent)
  ELSE IF reply.config # Absent THEN Outcome("true", reply.config)
  ELSE Outcome("false", Absent)

\* loadFromServer that keeps the local preferences over the server's.
loadFromServerKeepsLocal(reply) ==
  LET r == loadFromServerTry(reply)
  IN IF r.result = "throws" THEN Outcome("false", Absent)
     ELSE IF r.applied = Absent THEN r
     ELSE Outcome("true", Some([r.applied[1] EXCEPT !.preferences = config.preferences]))

\* loadFromServer: the try block and its catch.
loadFromServer(reply) ==
  LET r == loadFromServerTry(reply)
  IN IF r.result = "throws" THEN Outcome("false", Absent) ELSE r

\* The try block of saveToServer.
saveToServerTry(reply) ==
  IF reply.kind = "neterr" THEN "throws"
  ELSE IF ~reply.ok THEN "false"
  ELSE IF reply.kind = "malformed" THEN "throws"
  ELSE IF ~reply.enabled THEN "false"
  ELSE "true"

\* saveToServer without its catch.
saveToServerNoCatch(reply) == saveToServerTry(reply)

\* saveToServer: the try block and its catch.
saveToServer(reply) ==
  LET r == saveToServerTry(reply)
  IN IF r = "throws" THEN "false" ELSE r

\* Merge that also merges the fields of preferences instead of replacing it.
MergeDeep(prev, updates) ==
  [k \in DocKeys |->
     IF k \notin DOMAIN updates THEN prev[k]
     ELSE IF k = "preferences" /\ prev[k] # Absent /\ updates[k] # Absent
       THEN Some([f \in DOMAIN prev[k][1] \cup DOMAIN updates[k][1] |->
                    IF f \in DOMAIN updates[k][1] THEN updates[k][1][f]
                    ELSE prev[k][1][f]])
     ELSE updates[k]]

\* { ...prev, ...updates }
Merge(prev, updates) ==
  [k \in DocKeys |-> IF k \in DOMAIN updates THEN updates[k] ELSE prev[k]]

\* ------------------------------------------------------------- the effects
(***************************************************************************)
(* h is the hook after an event's handler has run and before the render:   *)
(* the state values the handler set (cfgSet: setConfig was called, which   *)
(* always yields a new object and so new loadFromServer / saveToServer /   *)
(* syncWithServer callbacks), the refs, the timers and requests, and the   *)
(* server's file after the request the event completed.                    *)
(***************************************************************************)
Hook ==
  [config |-> config, cfgSet |-> FALSE, serverEnabled |-> serverEnabled,
   isLoading |-> isLoading, isSaving |-> isSaving,
   hasInitialSynced |-> hasInitialSynced, hasPendingSave |-> hasPendingSave,
   saveTimeoutRef |-> saveTimeoutRef, timers |-> timers, pushes |-> pushes,
   initRun |-> initRun, staleProbes |-> staleProbes, staleLoads |-> staleLoads,
   file |-> file]

\* clearTimeout(saveTimeoutRef.current)
clearTimeout(ts, ref) == IF ref = Absent THEN ts ELSE ts \ {ref[1]}

(***************************************************************************)
(* The initialize effect.  Its dependencies loadFromServer and             *)
(* saveToServer change exactly when config does.  The cleanup sets         *)
(* mounted = false for the running initialize(); the body starts a new     *)
(* one, which awaits checkServerStatus.  A superseded run that awaits      *)
(* checkServerStatus returns at `if (!mounted) return` when the reply      *)
(* comes, so all that is left of it is its GET, which changes something    *)
(* only while it can seed the file: such runs are counted in staleProbes   *)
(* only while storage is enabled and the file absent.                      *)
(***************************************************************************)
InitializeEffect(h) ==
  LET seeding == useServerStorage /\ h.file = Absent
      probes == IF seeding THEN h.staleProbes ELSE 0
  IN IF h.cfgSet
     THEN [initRun |-> "probing",
           staleProbes |-> probes + (IF seeding /\ h.initRun = "probing" THEN 1 ELSE 0),
           staleLoads |-> h.staleLoads + (IF h.initRun = "loading" THEN 1 ELSE 0)]
     ELSE [initRun |-> h.initRun, staleProbes |-> probes, staleLoads |-> h.staleLoads]

\* The periodic-sync effect: is the interval armed after the render.
SyncEffect(h) ==
  IF h.cfgSet \/ h.serverEnabled # serverEnabled \/ h.isLoading # isLoading
     \/ h.isSaving # isSaving
  THEN h.serverEnabled /\ ~h.isLoading
  ELSE syncInterval

\* The cleanup returned by the debounce branch of the save effect.
SaveEffectCleanup(h) ==
  IF saveCleanup THEN clearTimeout(h.timers, h.saveTimeoutRef) ELSE h.timers

\* The save effect: cleanup of the previous run, then the body.
SaveEffect(h) ==
  LET cleaned == SaveEffectCleanup(h)
      idle == [timers |-> cleaned, saveTimeoutRef |-> h.saveTimeoutRef,
               pushes |-> h.pushes, saveCleanup |-> FALSE]
  IN IF ~(h.cfgSet \/ h.serverEnabled # serverEnabled \/ h.isLoading # isLoading
          \/ h.isSaving # isSaving)
     THEN [timers |-> h.timers, saveTimeoutRef |-> h.saveTimeoutRef,
           pushes |-> h.pushes, saveCleanup |-> saveCleanup]
     ELSE IF ~h.serverEnabled \/ h.isLoading \/ ~h.hasInitialSynced THEN idle
     ELSE IF ~h.hasPendingSave THEN idle
     ELSE IF h.isSaving
          THEN [idle EXCEPT !.pushes = Append(h.pushes, h.config)]
     ELSE [timers |-> cleaned \cup {h.config}, saveTimeoutRef |-> Some(h.config),
           pushes |-> h.pushes, saveCleanup |-> TRUE]

\* The render after an event and the effects it runs.
Render(h) ==
  LET init == InitializeEffect(h)
      save == SaveEffect(h)
  IN /\ init.staleProbes <= MaxStale
     /\ init.staleLoads <= MaxStale
     /\ config' = h.config
     /\ serverEnabled' = h.serverEnabled
     /\ isLoading' = h.isLoading
     /\ isSaving' = h.isSaving
     /\ hasInitialSynced' = h.hasInitialSynced
     /\ hasPendingSave' = h.hasPendingSave
     /\ file' = h.file
     /\ initRun' = init.initRun
     /\ staleProbes' = init.staleProbes
     /\ staleLoads' = init.staleLoads
     /\ syncInterval' = SyncEffect(h)
     /\ timers' = save.timers
     /\ saveTimeoutRef' = save.saveTimeoutRef
     /\ pushes' = save.pushes
     /\ saveCleanup' = save.saveCleanup

\* ------------------------------------------------------------------- Init
\* The hook after its first render: config read from localStorage, the first
\* initialize() awaiting checkServerStatus, the other two effects returned early.
FirstRender ==
  /\ config = loadFromLocalStorage(cache)
  /\ serverEnabled = FALSE
  /\ isLoading = TRUE
  /\ isSaving = FALSE
  /\ lastSync = FALSE
  /\ hasInitialSynced = FALSE
  /\ hasPendingSave = FALSE
  /\ saveTimeoutRef = Absent
  /\ saveCleanup = FALSE
  /\ timers = {}
  /\ syncInterval = FALSE
  /\ initRun = "probing"
  /\ staleProbes = 0
  /\ staleLoads = 0
  /\ syncLoads = 0
  /\ pushes = <<>>
  /\ updateCalls = 0
  /\ lastCall = Absent
  /\ unpushed = FALSE
  /\ draftTimers = {}
  /\ autoSaveTimeouts = EmptyObj
  /\ clock = 0
  /\ lastDraftCall = Absent
  /\ mounted = TRUE
  /\ popoverConfig = loadFromLocalStorage(cache)

Init ==
  /\ \E sc \in Scenarios : cache = sc[1] /\ file = sc[2] /\ useServerStorage = sc[3]
  /\ FirstRender
  /\ agentInboxes = <<>>
  /\ Quiet

\* ---------------------------------------------------------------- actions
\* updateConfig(updates, immediate)
updateConfig(updates, immediate) ==
  LET updated == Merge(config, updates)
      now == immediate /\ serverEnabled
  IN /\ updateCalls < MaxUpdates
     /\ updateCalls' = updateCalls + 1
     /\ cache' = saveToLocalStorage(updated)
     /\ Render([Hook EXCEPT !.config = updated, !.cfgSet = TRUE,
                            !.hasPendingSave = TRUE,
                            !.timers = IF now THEN clearTimeout(timers, saveTimeoutRef)
                                       ELSE timers,
                            !.saveTimeoutRef = IF now THEN Absent ELSE saveTimeoutRef,
                            !.isSaving = IF now THEN TRUE ELSE isSaving])
     /\ lastCall' = Call(updates, immediate)
     /\ unpushed' = TRUE
     /\ UNCHANGED <<lastSync, syncLoads, useServerStorage>>

\* The callback of an armed debounce timer.
saveTimeout(c) ==
  /\ c \in timers
  /\ Render([Hook EXCEPT !.timers = timers \ {c}, !.isSaving = TRUE,
                         !.pushes = Append(pushes, c)])
  /\ lastCall' = Absent
  /\ UNCHANGED auxVars
  /\ UNCHANGED <<lastSync, syncLoads, cache, useServerStorage, updateCalls, unpushed>>

\* syncWithServer, called by the interval.
syncWithServer ==
  /\ syncInterval
  /\ IF ~serverEnabled THEN UNCHANGED syncLoads
     ELSE IF hasPendingSave \/ isSaving THEN UNCHANGED syncLoads
     ELSE /\ syncLoads < MaxSyncLoads
          /\ syncLoads' = syncLoads + 1
  /\ lastCall' = Absent
  /\ UNCHANGED auxVars
  /\ UNCHANGED <<config, serverEnabled, isLoading, isSaving, lastSync, hasInitialSynced,
                 hasPendingSave, saveTimeoutRef, saveCleanup, timers, syncInterval,
                 initRun, staleProbes, staleLoads, pushes, cache, useServerStorage,
                 file, updateCalls, unpushed>>

\* initialize() that clears isLoading only after a pull, not in a finally.
initializeNoFinally(outcome) ==
  LET served == GET(file, useServerStorage)
      enabled == checkServerStatus(Deliver(outcome, served.reply))
      first == enabled /\ ~hasInitialSynced
  IN /\ initRun = "probing"
     /\ Render([Hook EXCEPT !.serverEnabled = enabled,
                            !.initRun = IF first THEN "loading" ELSE "done",
                            !.file = IF outcome = "ok" THEN served.file ELSE file])
     /\ lastCall' = Absent
     /\ UNCHANGED auxVars
     /\ UNCHANGED <<lastSync, syncLoads, cache, useServerStorage, updateCalls, unpushed>>

\* The reply to checkServerStatus reaches the running initialize().
initialize(outcome) ==
  LET served == GET(file, useServerStorage)
      enabled == checkServerStatus(Deliver(outcome, served.reply))
      first == enabled /\ ~hasInitialSynced
  IN /\ initRun = "probing"
     /\ Render([Hook EXCEPT !.serverEnabled = enabled,
                            !.initRun = IF first THEN "loading" ELSE "done",
                            !.isLoading = IF first THEN isLoading ELSE FALSE,
                            !.file = IF outcome = "ok" THEN served.file ELSE file])
     /\ lastCall' = Absent
     /\ UNCHANGED auxVars
     /\ UNCHANGED <<lastSync, syncLoads, cache, useServerStorage, updateCalls, unpushed>>

\* The GET of a superseded initialize() is served; the run returns at
\* `if (!mounted) return` when the reply comes.
staleInitialize ==
  /\ staleProbes > 0
  /\ Render([Hook EXCEPT !.staleProbes = staleProbes - 1,
                         !.file = GET(file, useServerStorage).file])
  /\ lastCall' = Absent
  /\ UNCHANGED auxVars
  /\ UNCHANGED <<lastSync, syncLoads, cache, useServerStorage, updateCalls, unpushed>>

LoadOrigins == {"initialize", "unmounted", "sync"}

\* The reply to a loadFromServer request arrives.  origin: "initialize" (the
\* running initialize()), "unmounted" (a superseded one) or "sync" (syncWithServer).
loadResponse(origin, outcome) ==
  LET served == GET(file, useServerStorage)
      load == loadFromServer(Deliver(outcome, served.reply))
      applied == load.applied # Absent
  IN /\ CASE origin = "initialize" -> initRun = "loading"
          [] origin = "unmounted" -> staleLoads > 0
          [] OTHER -> syncLoads > 0
     /\ cache' = IF applied THEN saveToLocalStorage(load.applied[1]) ELSE cache
     /\ lastSync' = (applied \/ lastSync)
     /\ syncLoads' = IF origin = "sync" THEN syncLoads - 1 ELSE syncLoads
     /\ Render([Hook EXCEPT !.config = IF applied THEN load.applied[1] ELSE config,
                            !.cfgSet = applied,
                            !.hasInitialSynced = IF origin = "sync" THEN hasInitialSynced
                                                 ELSE TRUE,
                            !.isLoading = IF origin = "initialize" THEN FALSE ELSE isLoading,
                            !.initRun = IF origin = "initialize" THEN "done" ELSE initRun,
                            !.staleLoads = IF origin = "unmounted" THEN staleLoads - 1
                                           ELSE staleLoads,
                            !.file = IF outcome = "ok" THEN served.file ELSE file])
     /\ lastCall' = Absent
     /\ UNCHANGED auxVars
     /\ UNCHANGED <<useServerStorage, updateCalls, unpushed>>

RemoveAt(s, i) == SubSeq(s, 1, i - 1) \o SubSeq(s, i + 1, Len(s))

\* saveResponse whose .then ignores the success value.
saveResponseIgnoresSuccess(i, outcome) ==
  /\ i \in 1..Len(pushes)
  /\ LET served == POST(file, useServerStorage, pushes[i])
         success == saveToServer(Deliver(outcome, served.reply)) = "true"
     IN /\ lastSync' = (success \/ lastSync)
        /\ Render([Hook EXCEPT !.pushes = RemoveAt(pushes, i),
                               !.hasPendingSave = FALSE,
                               !.isSaving = FALSE,
                               !.file = IF outcome = "ok" THEN served.file ELSE file])
        /\ unpushed' = (unpushed /\ ~(success /\ pushes[i] = config))
  /\ lastCall' = Absent
  /\ UNCHANGED auxVars
  /\ UNCHANGED <<syncLoads, cache, useServerStorage, updateCalls>>

\* The reply to the i-th saveToServer request in flight arrives.
saveResponse(i, outcome) ==
  /\ i \in 1..Len(pushes)
  /\ LET served == POST(file, useServerStorage, pushes[i])
         success == saveToServer(Deliver(outcome, served.reply)) = "true"
     IN /\ lastSync' = (success \/ lastSync)
        /\ Render([Hook EXCEPT !.pushes = RemoveAt(pushes, i),
                               !.hasPendingSave = IF success THEN FALSE ELSE hasPendingSave,
                               !.isSaving = IF success THEN FALSE ELSE isSaving,
                               !.file = IF outcome = "ok" THEN served.file ELSE file])
        /\ unpushed' = (unpushed /\ ~(success /\ pushes[i] = config))
  /\ lastCall' = Absent
  /\ UNCHANGED auxVars
  /\ UNCHANGED <<syncLoads, cache, useServerStorage, updateCalls>>

Next ==
  \/ \E u \in Updates, immediate \in BOOLEAN :
       updateConfig(u, immediate) /\ UNCHANGED auxVars
  \/ \E c \in timers : saveTimeout(c)
  \/ syncWithServer
  \/ \E o \in Outcomes : initialize(o)
  \/ staleInitialize
  \/ \E origin \in LoadOrigins, o \in Outcomes : loadResponse(origin, o)
  \/ \E i \in 1..Len(pushes), o \in Outcomes : saveResponse(i, o)

Spec == Init /\ [][Next]_vars

\* Every request of the running initialize() settles: fetch resolves or rejects.
FairSpec ==
  /\ Spec
  /\ WF_vars(\E o \in Outcomes : initialize(o))
  /\ WF_vars(\E o \in Outcomes : loadResponse("initialize", o))

TypeOK ==
  /\ serverEnabled \in BOOLEAN /\ isLoading \in BOOLEAN /\ isSaving \in BOOLEAN
  /\ initRun \in {"probing", "loading", "done"}
  /\ staleProbes \in 0..MaxStale /\ staleLoads \in 0..MaxStale
  /\ syncLoads \in 0..MaxSyncLoads
  /\ updateCalls \in 0..MaxUpdates
  /\ DOMAIN config = DocKeys

\* ------------------------------------------------------------------ claims
Ready == ~isLoading /\ serverEnabled

\* C1: pull suppression.  In READY with remote enabled, while an update has
\* been made whose push has not succeeded yet, syncWithServer issues no
\* remote read (no loadFromServer request is added) and leaves the in-memory
\* document and the local cache as they are.
C1_PullSuppression ==
  [][(syncWithServer /\ Ready /\ unpushed)
       => (syncLoads' = syncLoads /\ config' = config /\ cache' = cache)]_vars

\* C2: a local update wins over an in-flight pull.  When the reply to a
\* periodic pull arrives while an update awaits its push (the pending flag
\* set by updateConfig is still set), the reply leaves the in-memory
\* document and the local cache as the update wrote them.
C2_UpdateWinsOverPull ==
  [][((\E o \in Outcomes : loadResponse("sync", o)) /\ hasPendingSave)
       => (config' = config /\ cache' = cache)]_vars

\* C3: debounce coalescing.  The debounce timer that ends a burst of
\* updateConfig calls sends exactly one push request, whose payload is the
\* in-memory document after the last call.
C3_OnePushPerBurst ==
  [][(\E c \in timers : saveTimeout(c))
       => pushes' = Append(pushes, config)]_vars

\* Steps of the program, for the formulas below.
Updated == \E u \in Updates, immediate \in BOOLEAN : updateConfig(u, immediate)

PullReply(origin, o) == loadFromServer(Deliver(o, GET(file, useServerStorage).reply))

\* A loadFromServer reply that hands a document to setConfig.
PullApplied ==
  \E origin \in LoadOrigins, o \in Outcomes :
    loadResponse(origin, o) /\ PullReply(origin, o).applied # Absent

\* A loadFromServer reply that makes loadFromServer resolve to false.
PullFailed ==
  \E origin \in LoadOrigins, o \in Outcomes :
    loadResponse(origin, o) /\ PullReply(origin, o).result # "true"

PushReply(i, o) == saveToServer(Deliver(o, POST(file, useServerStorage, pushes[i]).reply))

PushSucceeded ==
  \E i \in 1..Len(pushes), o \in Outcomes : saveResponse(i, o) /\ PushReply(i, o) = "true"

PushFailed ==
  \E i \in 1..Len(pushes), o \in Outcomes : saveResponse(i, o) /\ PushReply(i, o) # "true"

\* The slot values that hold document d: each slot holds d's field, but an
\* empty-string API key is held as a missing slot.
Stored(d) ==
  [k \in STORAGE_KEYS |->
     IF k = "langsmithApiKey" /\ d[k] = Some("") THEN Absent ELSE d[k]]

\* C4: updateConfig(updates, true) in READY with remote enabled leaves no
\* debounce timer armed (the one scheduled by earlier updates is cancelled
\* and cannot fire afterwards) and sends one push of the merged document
\* in the same step.
C4_ImmediatePush ==
  [][\A u \in Updates :
       (updateConfig(u, TRUE) /\ Ready)
         => (timers' = {} /\ pushes' = Append(pushes, Merge(config, u)))]_vars

\* C5: updateConfig(updates) changes exactly the top-level keys present in
\* updates: each takes the value in updates whole, every other key keeps its
\* value; a second call is applied to the result of the first.
C5_ShallowMerge ==
  [][\A u \in Updates, immediate \in BOOLEAN :
       updateConfig(u, immediate)
         => \A k \in DocKeys :
              config'[k] = IF k \in DOMAIN u THEN u[k] ELSE config[k]]_vars

\* The second of two calls replaced preferences whole (the theme the local
\* cache held is gone) and kept the API key written by the first call.
C5_Witness ==
  /\ lastCall # Absent /\ updateCalls = 2
  /\ "preferences" \in DOMAIN lastCall[1].updates
  /\ config.preferences = Some(PrefsAll)
  /\ config.langsmithApiKey = Some("")
  /\ config.inboxes = Some(<<InboxA>>)

InitialPullReturns(o) ==
  LET reply == Deliver(o, GET(file, useServerStorage).reply)
  IN /\ loadResponse("initialize", o)
     /\ reply.kind = "json" /\ reply.ok /\ reply.enabled /\ reply.config # Absent

RemoteDocument(o) == Deliver(o, GET(file, useServerStorage).reply).config[1]

C10_FailuresContained ==
  /\ [](\A o \in Outcomes :
          /\ loadFromServer(Deliver(o, GET(file, useServerStorage).reply)).result
               \in {"true", "false"}
          /\ \A i \in 1..Len(pushes) : PushReply(i, o) \in {"true", "false"})
  /\ [][(PullFailed \/ PushFailed) => (config' = config /\ cache' = cache)]_vars

\* The initial pull failed (initial sync marked, nothing applied); the engine
\* is READY and has accepted an update since.
C10_Witness ==
  /\ hasInitialSynced /\ ~lastSync /\ Ready
  /\ lastCall # Absent /\ hasPendingSave /\ cache = Stored(config)

\* ---------------------------------------------------- reading the local cache
\* What localStorage can hold when the page is opened.
CacheInputs ==
  { Slots(inb, key, prefs, dr) :
      inb \in {Absent, Some(<<>>), Some(<<InboxA>>), Unparsable},
      key \in {Absent, Some(""), Some("k0")},
      prefs \in {Absent, Some(EmptyObj), Some(PrefsDark), Unparsable},
      dr \in {Absent, Some(EmptyObj), Some(DraftsT1), Unparsable} }

CacheInit ==
  /\ cache \in CacheInputs
  /\ file = Absent /\ useServerStorage = FALSE
  /\ FirstRender
  /\ agentInboxes = <<>>
  /\ Quiet

\* The page is opened again with other slot contents: useState(loadFromLocalStorage).
Reload ==
  /\ \E c \in CacheInputs : cache' = c /\ config' = loadFromLocalStorage(c)
  /\ UNCHANGED <<serverEnabled, isLoading, isSaving, lastSync, hasInitialSynced,
                 hasPendingSave, saveTimeoutRef, saveCleanup, timers, syncInterval,
                 initRun, staleProbes, staleLoads, syncLoads, pushes,
                 useServerStorage, file, updateCalls, lastCall, unpushed>>
  /\ UNCHANGED auxVars

CacheNext == Reload

CacheSpec == CacheInit /\ [][CacheNext]_vars

NothingStored == \A k \in STORAGE_KEYS : cache[k] = Absent

ParseFails == \E k \in ParsedSlots : cache[k] = Unparsable

Put(obj, k, v) == [x \in DOMAIN obj \cup {k} |-> IF x = k THEN v ELSE obj[x]]

\* const { [k]: _, ...rest } = obj
Without(obj, k) == [x \in DOMAIN obj \ {k} |-> obj[x]]

\* obj?.[k], as an option (Absent: undefined).
Field(opt, k) ==
  IF opt # Absent /\ k \in DOMAIN opt[1] THEN Some(opt[1][k]) ELSE Absent

\* { ...opt }: the own fields of an object that may be undefined.
Spread(opt) == IF opt = Absent THEN EmptyObj ELSE opt[1]

\* getInboxSetting with the global default looked up before the override.
getInboxSettingGlobalFirst(inboxId, settingKey, appDefault, cfg) ==
  LET inboxOverride ==
        Field(Field(Field(cfg.preferences, "inboxSettings"), inboxId), settingKey)
      globalSetting == Field(Field(cfg.preferences, "inboxDefaults"), settingKey)
  IN IF globalSetting # Absent THEN globalSetting[1]
     ELSE IF inboxOverride # Absent THEN inboxOverride[1]
     ELSE appDefault

getInboxSetting(inboxId, settingKey, appDefault, cfg) ==
  LET inboxOverride ==
        Field(Field(Field(cfg.preferences, "inboxSettings"), inboxId), settingKey)
      globalSetting == Field(Field(cfg.preferences, "inboxDefaults"), settingKey)
  IN IF inboxOverride # Absent THEN inboxOverride[1]
     ELSE IF globalSetting # Absent THEN globalSetting[1]
     ELSE appDefault

\* setInboxSetting that spreads the existing record after the new key.
setInboxSettingSpreadLast(inboxId, settingKey, value, cfg) ==
  LET settings == Spread(Field(cfg.preferences, "inboxSettings"))
      record == Spread(Field(Some(settings), inboxId))
  IN [cfg EXCEPT !.preferences =
        Some(Put(Spread(cfg.preferences), "inboxSettings",
                 Put(settings, inboxId,
                     IF settingKey \in DOMAIN record THEN record
                     ELSE Put(record, settingKey, value))))]

\* setInboxSetting that builds preferences from inboxSettings alone.
setInboxSettingDropsPreferences(inboxId, settingKey, value, cfg) ==
  LET settings == Spread(Field(cfg.preferences, "inboxSettings"))
      record == Spread(Field(Some(settings), inboxId))
  IN [cfg EXCEPT !.preferences =
        Some(Put(EmptyObj, "inboxSettings",
                 Put(settings, inboxId, Put(record, settingKey, value))))]

setInboxSetting(inboxId, settingKey, value, cfg) ==
  LET settings == Spread(Field(cfg.preferences, "inboxSettings"))
      record == Spread(Field(Some(settings), inboxId))
  IN [cfg EXCEPT !.preferences =
        Some(Put(Spread(cfg.preferences), "inboxSettings",
                 Put(settings, inboxId, Put(record, settingKey, value))))]

\* clearInboxSetting without the Object.keys(rest).length === 0 branch.
clearInboxSettingKeepsRecord(inboxId, settingKey, cfg) ==
  LET copy == Spread(Field(cfg.preferences, "inboxSettings"))
      inboxSettings ==
        IF inboxId \in DOMAIN copy
          THEN Put(copy, inboxId, Without(copy[inboxId], settingKey))
          ELSE copy
  IN [cfg EXCEPT !.preferences =
        Some(Put(Spread(cfg.preferences), "inboxSettings", inboxSettings))]

clearInboxSetting(inboxId, settingKey, cfg) ==
  LET copy == Spread(Field(cfg.preferences, "inboxSettings"))
      inboxSettings ==
        IF inboxId \in DOMAIN copy
          THEN LET rest == Without(copy[inboxId], settingKey)
               IN IF DOMAIN rest = {} THEN Without(copy, inboxId)
                  ELSE Put(copy, inboxId, rest)
          ELSE copy
  IN [cfg EXCEPT !.preferences =
        Some(Put(Spread(cfg.preferences), "inboxSettings", inboxSettings))]

\* Inboxes, setting keys and values of the settings dialog.
InboxB == [id |-> "b", name |-> "Inbox B"]
InboxIds == {"a", "b", "default"}
SettingKeys == {"defaultView", "sortOrder"}
ViewValues == {"all", "idle"}
AppDefault == "interrupted"

\* preferences.inboxSettings as an earlier session can have left it (absent,
\* or without an empty record) and preferences.inboxDefaults.
StoredInboxSettings ==
  { Absent,
    Some(EmptyObj),
    Some([a |-> [defaultView |-> "all"]]),
    Some([a |-> [defaultView |-> "all", sortOrder |-> "newest"]]),
    Some([a |-> [defaultView |-> "all"],
          b |-> [defaultView |-> "idle", sortOrder |-> "newest"]]) }

StoredInboxDefaults ==
  { Absent, Some([defaultView |-> "idle"]), Some([sortOrder |-> "oldest"]) }

StoredPreferences ==
  { LET p1 == IF st = Absent THEN PrefsDark ELSE Put(PrefsDark, "inboxSettings", st[1])
    IN IF df = Absent THEN p1 ELSE Put(p1, "inboxDefaults", df[1]) :
      st \in StoredInboxSettings, df \in StoredInboxDefaults }

\* What the page finds when the settings dialog is used: local-only
\* deployments with every stored preferences object (and one with an
\* unparsable slot), and one deployment with remote storage.
SettingsScenarios ==
  { <<Slots(Some(<<InboxA, InboxB>>), Absent, Some(p), Absent), Absent, FALSE>> :
      p \in StoredPreferences }
  \cup
  { <<Slots(Some(<<InboxA, InboxB>>), Absent, Absent, Unparsable), Absent, FALSE>>,
    <<Slots(Some(<<InboxA, InboxB>>), Absent,
            Some(Put(PrefsDark, "inboxSettings", [a |-> [defaultView |-> "all"]])),
            Absent),
      Absent, TRUE>> }

SettingsInit ==
  /\ \E sc \in SettingsScenarios :
       cache = sc[1] /\ file = sc[2] /\ useServerStorage = sc[3]
  /\ FirstRender
  /\ agentInboxes = <<>>
  /\ Quiet

\* handleDefaultViewChange that reverts to the global setting by storing an
\* empty record for the inbox.
handleDefaultViewChangeEmptyRecord(inbox, value) ==
  IF value = "use-global"
    THEN updateConfig(
           [config EXCEPT !.preferences =
              Some(Put(Spread(config.preferences), "inboxSettings",
                       Put(Spread(Field(config.preferences, "inboxSettings")),
                           inbox.id, EmptyObj)))],
           TRUE)
    ELSE updateConfig(setInboxSetting(inbox.id, "defaultView", value, config), TRUE)

\* InboxSettingsDialog.handleDefaultViewChange for an inbox of the document.
handleDefaultViewChange(inbox, value) ==
  IF value = "use-global"
    THEN updateConfig(clearInboxSetting(inbox.id, "defaultView", config), TRUE)
    ELSE updateConfig(setInboxSetting(inbox.id, "defaultView", value, config), TRUE)

SettingsNext ==
  \/ \E n \in 1..Len(config.inboxes[1]), value \in ViewValues \cup {"use-global"} :
       handleDefaultViewChange(config.inboxes[1][n], value) /\ UNCHANGED auxVars
  \/ \E c \in timers : saveTimeout(c)
  \/ syncWithServer
  \/ \E o \in Outcomes : initialize(o)
  \/ staleInitialize
  \/ \E origin \in LoadOrigins, o \in Outcomes : loadResponse(origin, o)
  \/ \E i \in 1..Len(pushes), o \in Outcomes : saveResponse(i, o)

SettingsSpec == SettingsInit /\ [][SettingsNext]_vars

\* The per-inbox override, the global default and the override records of a document.
OverrideOf(cfg, inboxId, settingKey) ==
  Field(Field(Field(cfg.preferences, "inboxSettings"), inboxId), settingKey)

GlobalOf(cfg, settingKey) == Field(Field(cfg.preferences, "inboxDefaults"), settingKey)

RecordsOf(cfg) == Spread(Field(cfg.preferences, "inboxSettings"))

SettingValues == ViewValues \cup {"newest"}

\* C12: resolver precedence.  For every inbox id and setting key,
\* getInboxSetting returns the per-inbox override when one is present,
\* otherwise the global default of inboxDefaults when one is present,
\* otherwise the app default; setting or clearing an override of another
\* inbox id does not change the result.
C12_ResolverPrecedence ==
  \A id \in InboxIds, key \in SettingKeys :
    LET O == OverrideOf(config, id, key)
        G == GlobalOf(config, key)
        resolved == getInboxSetting(id, key, AppDefault, config)
    IN /\ resolved = IF O # Absent THEN O[1] ELSE IF G # Absent THEN G[1] ELSE AppDefault
       /\ \A other \in InboxIds \ {id} :
            /\ \A v \in SettingValues :
                 getInboxSetting(id, key, AppDefault,
                                 setInboxSetting(other, key, v, config)) = resolved
            /\ getInboxSetting(id, key, AppDefault,
                               clearInboxSetting(other, key, config)) = resolved

\* The dialog has set inbox b's view to "all" while the global default is
\* "idle": b resolves to its override, an inbox without override to the
\* global default, and a key with neither to the app default.
C12_Witness ==
  /\ lastCall # Absent
  /\ OverrideOf(config, "b", "defaultView") = Some("all")
  /\ GlobalOf(config, "defaultView") = Some("idle")
  /\ getInboxSetting("b", "defaultView", AppDefault, config) = "all"
  /\ getInboxSetting("default", "defaultView", AppDefault, config) = "idle"
  /\ getInboxSetting("default", "sortOrder", AppDefault, config) = AppDefault

\* C13: resolver round trip.  For every inbox id, key and value, resolving
\* in the document returned by setInboxSetting(id, key, v) gives v, and
\* resolving in the document returned by clearInboxSetting(id, key) gives
\* the global default when one is set and the app default otherwise.
C13_ResolverRoundTrip ==
  \A id \in InboxIds, key \in SettingKeys :
    LET G == GlobalOf(config, key)
    IN /\ \A v \in SettingValues :
            getInboxSetting(id, key, AppDefault, setInboxSetting(id, key, v, config)) = v
       /\ getInboxSetting(id, key, AppDefault, clearInboxSetting(id, key, config))
            = IF G # Absent THEN G[1] ELSE AppDefault

\* The dialog has cleared the last override: inboxSettings is empty and
\* inbox a resolves to the global default.
C13_Witness ==
  /\ lastCall # Absent
  /\ Field(config.preferences, "inboxSettings") = Some(EmptyObj)
  /\ GlobalOf(config, "defaultView") = Some("idle")
  /\ getInboxSetting("a", "defaultView", AppDefault, config) = "idle"

\* C14: override record cleanup.  For every inbox id with an override
\* record, clearInboxSetting(id, key) removes the id from inboxSettings when
\* the record holds no other key, and otherwise keeps the record with the
\* remaining keys.
C14_RecordCleanup ==
  \A id \in DOMAIN RecordsOf(config), key \in SettingKeys :
    LET record == RecordsOf(config)[id]
        after == RecordsOf(clearInboxSetting(id, key, config))
    IN IF DOMAIN record \subseteq {key}
         THEN id \notin DOMAIN after
         ELSE id \in DOMAIN after /\ after[id] = Without(record, key)

\* The dialog has cleared the only override of inbox a: a is gone from
\* inboxSettings, inbox b's record with two keys is still there.
C14_Witness ==
  /\ lastCall # Absent
  /\ RecordsOf(config) = [b |-> [defaultView |-> "idle", sortOrder |-> "newest"]]

NoEmptyRecord(prefs) ==
  \A id \in DOMAIN Spread(Field(prefs, "inboxSettings")) :
    DOMAIN Spread(Field(prefs, "inboxSettings"))[id] # {}

\* C15: starting from documents without an empty override record, whatever
\* sequence of settings changes is stored through updateConfig, no inbox id
\* is mapped to an empty override record in the in-memory document, in the
\* preferences slot of the local cache, in a pushed document or in the
\* server's file.
C15_NoEmptyRecord ==
  /\ NoEmptyRecord(config.preferences)
  /\ cache.preferences # Unparsable => NoEmptyRecord(cache.preferences)
  /\ \A i \in 1..Len(pushes) : NoEmptyRecord(pushes[i].preferences)
  /\ file # Absent => NoEmptyRecord(file[1].preferences)

\* With remote storage: the override set by the dialog was pushed and saved,
\* then cleared again; the document in memory, in the cache and in the push
\* in flight has an empty inboxSettings.
C15_Witness ==
  /\ lastCall # Absent /\ Ready /\ file # Absent
  /\ RecordsOf(file[1]) = [default |-> [defaultView |-> "all"]]
  /\ Field(config.preferences, "inboxSettings") = Some(EmptyObj)
  /\ cache.preferences = config.preferences
  /\ pushes = <<config>>

\* The fields a settings change must not touch are equal in two documents.
SameOutside(before, after, inboxId) ==
  /\ \A k \in DocKeys \ {"preferences"} : after[k] = before[k]
  /\ \A f \in DOMAIN Spread(before.preferences) \ {"inboxSettings"} :
       Field(after.preferences, f) = Field(before.preferences, f)
  /\ DOMAIN Spread(after.preferences) \subseteq
       DOMAIN Spread(before.preferences) \cup {"inboxSettings"}
  /\ \A other \in InboxIds \ {inboxId} :
       Field(Some(RecordsOf(after)), other) = Field(Some(RecordsOf(before)), other)

\* C16: for every inbox id, key and value, the documents returned by
\* setInboxSetting and clearInboxSetting equal their input in every
\* top-level field other than preferences, in every preference field other
\* than inboxSettings and in the override records of all other inbox ids.
C16_SettingsFrame ==
  \A id \in InboxIds, key \in SettingKeys :
    /\ \A v \in SettingValues :
         SameOutside(config, setInboxSetting(id, key, v, config), id)
    /\ SameOutside(config, clearInboxSetting(id, key, config), id)

\* The dialog has set inbox a's view to "idle": the inboxes, the theme, the
\* global defaults and inbox b's record are as the cache held them.
C16_Witness ==
  /\ lastCall # Absent
  /\ OverrideOf(config, "a", "defaultView") = Some("idle")
  /\ Field(Some(RecordsOf(config)), "b")
       = Some([defaultView |-> "idle", sortOrder |-> "newest"])
  /\ Field(config.preferences, "theme") = Some("dark")
  /\ Field(config.preferences, "inboxDefaults") = Some([sortOrder |-> "oldest"])
  /\ config.inboxes = Some(<<InboxA, InboxB>>)

\* ------------------------------------------------------- useDraftStorage
ThreadIds == {"t1", "t2"}

\* What the user can have typed: nothing, white space only, text.
DraftContents == {<<>>, <<" ", "\n">>, <<" ", "h", "i">>}

DRAFT_AUTOSAVE_INTERVAL_MS == 5000
AutosaveSeconds == DRAFT_AUTOSAVE_INTERVAL_MS \div 1000

\* saveDraft and discardDraft are called up to this time.
MaxTime == 3

\* A setTimeout callback of saveDraft: its closure holds threadId, content
\* and the config.drafts of the render that made the call.
Timeout(threadId, content, drafts, due) ==
  [threadId |-> threadId, content |-> content, drafts |-> drafts, due |-> due]

DraftCall(op, threadId) == Some([op |-> op, threadId |-> threadId])

\* What the page finds when it is opened, remote storage off: an empty
\* localStorage, a committed draft, an unparsable slot.
DraftScenarios ==
  { EmptyCache,
    Slots(Some(<<InboxA>>), Absent, Some(PrefsDark), Some(DraftsT1)),
    Slots(Some(<<InboxA>>), Absent, Unparsable, Absent) }

DraftInit ==
  /\ cache \in DraftScenarios
  /\ file = Absent /\ useServerStorage = FALSE
  /\ FirstRender
  /\ agentInboxes = <<>>
  /\ Quiet

\* config.drafts?.[threadId]?.content, as an option.
loadDraft(threadId) == Field(Field(config.drafts, threadId), "content")

\* saveDraft without the clearTimeout of the existing timer.
saveDraftKeepsTimeout(threadId, content) ==
  LET timeout == Timeout(threadId, content, config.drafts, clock + AutosaveSeconds)
  IN /\ mounted /\ clock <= MaxTime
     /\ draftTimers' = draftTimers \cup {timeout}
     /\ autoSaveTimeouts' = Put(autoSaveTimeouts, threadId, timeout)
     /\ lastDraftCall' = DraftCall("saveDraft", threadId)
     /\ lastCall' = Absent
     /\ UNCHANGED <<config, serverEnabled, isLoading, isSaving, lastSync,
                    hasInitialSynced, hasPendingSave, saveTimeoutRef, saveCleanup,
                    timers, syncInterval, initRun, staleProbes, staleLoads,
                    syncLoads, pushes, cache, useServerStorage, file, updateCalls,
                    unpushed, clock, mounted>>
     /\ UNCHANGED <<inboxVars, serverVars, callerVars>>

saveDraft(threadId, content) ==
  LET existingTimeout == Field(Some(autoSaveTimeouts), threadId)
      timeout == Timeout(threadId, content, config.drafts, clock + AutosaveSeconds)
  IN /\ mounted /\ clock <= MaxTime
     /\ draftTimers' = (IF existingTimeout # Absent
                          THEN draftTimers \ {existingTimeout[1]}
                          ELSE draftTimers) \cup {timeout}
     /\ autoSaveTimeouts' = Put(autoSaveTimeouts, threadId, timeout)
     /\ lastDraftCall' = DraftCall("saveDraft", threadId)
     /\ lastCall' = Absent
     /\ UNCHANGED <<config, serverEnabled, isLoading, isSaving, lastSync,
                    hasInitialSynced, hasPendingSave, saveTimeoutRef, saveCleanup,
                    timers, syncInterval, initRun, staleProbes, staleLoads,
                    syncLoads, pushes, cache, useServerStorage, file, updateCalls,
                    unpushed, clock, mounted>>
     /\ UNCHANGED <<inboxVars, serverVars, callerVars>>

\* The setTimeout callback of saveDraft runs when its 5 seconds are over.
draftTimeout(t) ==
  /\ t \in draftTimers
  /\ t.due = clock
  /\ updateConfig([drafts |-> Some(Put(Spread(t.drafts), t.threadId,
                                       [content |-> t.content, lastSaved |-> clock]))],
                  FALSE)
  /\ draftTimers' = draftTimers \ {t}
  /\ autoSaveTimeouts' = Without(autoSaveTimeouts, t.threadId)
  /\ lastDraftCall' = Absent
  /\ UNCHANGED <<clock, mounted>>
  /\ UNCHANGED <<inboxVars, serverVars, callerVars>>

discardDraft(threadId) ==
  /\ mounted /\ clock <= MaxTime
  /\ lastDraftCall' = DraftCall("discardDraft", threadId)
  /\ UNCHANGED <<clock, mounted>>
  /\ UNCHANGED <<inboxVars, serverVars, callerVars>>
  /\ IF config.drafts = Absent
       THEN /\ lastCall' = Absent
            /\ UNCHANGED <<config, serverEnabled, isLoading, isSaving, lastSync,
                           hasInitialSynced, hasPendingSave, saveTimeoutRef,
                           saveCleanup, timers, syncInterval, initRun, staleProbes,
                           staleLoads, syncLoads, pushes, cache, useServerStorage,
                           file, updateCalls, unpushed, draftTimers, autoSaveTimeouts>>
       ELSE LET timeout == Field(Some(autoSaveTimeouts), threadId)
            IN /\ updateConfig([drafts |-> Some(Without(config.drafts[1], threadId))],
                               FALSE)
               /\ draftTimers' = IF timeout # Absent THEN draftTimers \ {timeout[1]}
                                 ELSE draftTimers
               /\ autoSaveTimeouts' = Without(autoSaveTimeouts, threadId)

\* A second passes; a callback that is due runs before the next second.
Tick ==
  /\ clock < MaxTime + AutosaveSeconds
  /\ \A t \in draftTimers : t.due > clock
  /\ clock' = clock + 1
  /\ lastDraftCall' = Absent
  /\ lastCall' = Absent
  /\ UNCHANGED <<config, serverEnabled, isLoading, isSaving, lastSync,
                 hasInitialSynced, hasPendingSave, saveTimeoutRef, saveCleanup,
                 timers, syncInterval, initRun, staleProbes, staleLoads,
                 syncLoads, pushes, cache, useServerStorage, file, updateCalls,
                 unpushed, draftTimers, autoSaveTimeouts, mounted>>
  /\ UNCHANGED <<inboxVars, serverVars, callerVars>>

\* The cleanup without the clearTimeout of each timer.
unmountKeepsTimers ==
  /\ mounted
  /\ mounted' = FALSE
  /\ autoSaveTimeouts' = EmptyObj
  /\ lastCall' = Absent
  /\ UNCHANGED <<config, serverEnabled, isLoading, isSaving, lastSync,
                 hasInitialSynced, hasPendingSave, saveTimeoutRef, saveCleanup,
                 timers, syncInterval, initRun, staleProbes, staleLoads,
                 syncLoads, pushes, cache, useServerStorage, file, updateCalls,
                 unpushed, draftTimers, clock, lastDraftCall>>
  /\ UNCHANGED <<inboxVars, serverVars, callerVars>>

\* The component is unmounted: the cleanup of the hook's effect clears every
\* timer of the map and empties the map.
unmount ==
  /\ mounted
  /\ mounted' = FALSE
  /\ draftTimers' = draftTimers \ {autoSaveTimeouts[k] : k \in DOMAIN autoSaveTimeouts}
  /\ autoSaveTimeouts' = EmptyObj
  /\ lastCall' = Absent
  /\ UNCHANGED <<config, serverEnabled, isLoading, isSaving, lastSync,
                 hasInitialSynced, hasPendingSave, saveTimeoutRef, saveCleanup,
                 timers, syncInterval, initRun, staleProbes, staleLoads,
                 syncLoads, pushes, cache, useServerStorage, file, updateCalls,
                 unpushed, clock, lastDraftCall>>
  /\ UNCHANGED <<inboxVars, serverVars, callerVars>>

DraftNext ==
  \/ \E threadId \in ThreadIds, content \in DraftContents : saveDraft(threadId, content)
  \/ \E t \in draftTimers : draftTimeout(t)
  \/ \E threadId \in ThreadIds : discardDraft(threadId)
  \/ Tick
  \/ unmount
  \/ \E o \in Outcomes : initialize(o)

DraftSpec == DraftInit /\ [][DraftNext]_vars

\* The timers pending for a thread in a set of timers.
Pending(ts, threadId) == {t \in ts : t.threadId = threadId}

\* C17: draft save debouncing, while the hook stays mounted.  saveDraft(id,
\* content) changes neither the document nor its stored copy and makes no
\* update; it leaves exactly one timer pending for id, the one of this call,
\* due 5 seconds later.  When a timer fires, one update with immediate = false
\* is made that sets drafts[id] to the content of the timer's call and
\* lastSaved to the time of the commit, and no timer is left for id.  An
\* update is made by a firing timer or by discardDraft only, and at most one
\* timer is pending per id at any time.
C17_Debounce ==
  [][ /\ \A threadId \in ThreadIds, content \in DraftContents :
           saveDraft(threadId, content) =>
             /\ config' = config /\ cache' = cache /\ file' = file
             /\ updateCalls' = updateCalls /\ pushes' = pushes
             /\ \E t \in draftTimers' :
                  /\ Pending(draftTimers', threadId) = {t}
                  /\ t.content = content
                  /\ t.due = clock + DRAFT_AUTOSAVE_INTERVAL_MS \div 1000
      /\ \A t \in draftTimers :
           draftTimeout(t) =>
             /\ clock = t.due
             /\ updateCalls' = updateCalls + 1
             /\ lastCall' # Absent /\ ~lastCall'[1].immediate
             /\ Field(config'.drafts, t.threadId)
                  = Some([content |-> t.content, lastSaved |-> clock])
             /\ Pending(draftTimers', t.threadId) = {}
      /\ updateCalls' # updateCalls =>
           \/ \E t \in draftTimers : draftTimeout(t)
           \/ \E threadId \in ThreadIds : discardDraft(threadId)
      /\ \A threadId \in ThreadIds :
           /\ Cardinality(Pending(draftTimers', threadId)) <= 1
           /\ Pending(draftTimers, threadId) # {} /\ clock' # clock =>
                Pending(draftTimers', threadId) = Pending(draftTimers, threadId)
    ]_vars

\* saveDraft("t2") was called at second 1 and its timer has just committed
\* the draft, 5 seconds later.
C17_Witness ==
  /\ clock = 1 + DRAFT_AUTOSAVE_INTERVAL_MS \div 1000
  /\ lastCall # Absent /\ lastDraftCall = Absent
  /\ lastCall[1].updates
       = [drafts |-> Some([t2 |-> [content |-> <<" ", "h", "i">>, lastSaved |-> clock]])]
  /\ draftTimers = {}

\* C18: thread independence.  When the save timer of a thread fires, the
\* committed draft of every other thread is what it was before, also one
\* that was committed after the timer was started.
C18_ThreadIndependence ==
  [][ \A t \in draftTimers :
        draftTimeout(t) =>
          \A other \in ThreadIds \ {t.threadId} :
            Field(config'.drafts, other) = Field(config.drafts, other) ]_vars

\* C19: discardDraft.  Once discardDraft(id) has returned, whatever the
\* document was, loadDraft(id) is undefined and no save timer is pending for
\* id, so that no save scheduled before the discard commits.
C19_DiscardCancels ==
  \A threadId \in ThreadIds :
    lastDraftCall = DraftCall("discardDraft", threadId) =>
      /\ loadDraft(threadId) = Absent
      /\ Pending(draftTimers, threadId) = {}

\* Characters String.prototype.trim removes (those the contents use).
Whitespace == {" ", "\t", "\n"}

RECURSIVE trimStart(_)
trimStart(str) ==
  IF str # <<>> /\ Head(str) \in Whitespace THEN trimStart(Tail(str)) ELSE str

RECURSIVE trimEnd(_)
trimEnd(str) ==
  IF str # <<>> /\ str[Len(str)] \in Whitespace
    THEN trimEnd(SubSeq(str, 1, Len(str) - 1))
    ELSE str

trim(str) == trimEnd(trimStart(str))

\* hasDraft without the trim: any non-empty content counts.
hasDraftNoTrim(threadId) ==
  LET draft == loadDraft(threadId)
  IN draft # Absent /\ draft[1] # <<>>

\* !!draft && draft.trim().length > 0
hasDraft(threadId) ==
  LET draft == loadDraft(threadId)
  IN draft # Absent /\ draft[1] # <<>> /\ Len(trim(draft[1])) > 0

\* C20: hasDraft(id) is true exactly when drafts[id] exists and its content
\* has a character that is not white space; it is false for an absent draft
\* and for an empty or white-space-only one.
C20_HasDraft ==
  \A threadId \in ThreadIds :
    hasDraft(threadId) <=>
      /\ Field(config.drafts, threadId) # Absent
      /\ \E i \in 1..Len(Field(config.drafts, threadId)[1].content) :
           Field(config.drafts, threadId)[1].content[i] \notin Whitespace

\* A draft of white space only has been committed for t1: the record
\* exists, and hasDraft reports no draft; t2 has no record.
C20_Witness ==
  /\ loadDraft("t1") = Some(<<" ", "\n">>) /\ ~hasDraft("t1")
  /\ loadDraft("t2") = Absent /\ ~hasDraft("t2")

\* C21: empty-draft distinction.  When the timer of saveDraft(id, "") commits,
\* drafts[id] exists, loadDraft(id) is the empty string and hasDraft(id) is
\* false; and a committed empty draft of id stays so in every step that is
\* neither discardDraft(id) nor a commit of a later saveDraft(id).
C21_EmptyDraft ==
  [][ /\ \A t \in draftTimers :
           draftTimeout(t) /\ t.content = <<>> =>
             /\ Field(config'.drafts, t.threadId) # Absent
             /\ loadDraft(t.threadId)' = Some(<<>>)
             /\ ~hasDraft(t.threadId)'
      /\ \A threadId \in ThreadIds :
           /\ loadDraft(threadId) = Some(<<>>)
           /\ ~discardDraft(threadId)
           /\ ~ \E t \in Pending(draftTimers, threadId) : draftTimeout(t)
           => loadDraft(threadId)' = Some(<<>>) /\ ~hasDraft(threadId)'
    ]_vars

\* C22: teardown.  Once the hook is unmounted, no draft timer is pending, the
\* timer map is empty, and no update is made any more: a save that was
\* pending at the unmount never commits.
C22_Teardown ==
  [][ ~mounted' =>
        /\ draftTimers' = {}
        /\ autoSaveTimeouts' = EmptyObj
        /\ updateCalls' = updateCalls /\ config' = config /\ cache' = cache ]_vars

\* The hook was unmounted right after saveDraft("t1"), whose timer was pending.
C22_Witness ==
  /\ ~mounted
  /\ lastDraftCall = DraftCall("saveDraft", "t1")
  /\ draftTimers = {}

\* ----------------------------------------------------------------- slugs
\* Strings are sequences of characters, as for the drafts.
UpperCase == [A |-> "a", I |-> "i", M |-> "m", Y |-> "y"]

toLowerCase(str) ==
  [i \in 1..Len(str) |-> IF str[i] \in DOMAIN UpperCase THEN UpperCase[str[i]] ELSE str[i]]

\* [a-z0-9-]
SlugChars ==
  {"a", "b", "c", "d", "e", "f", "g", "h", "i", "j", "k", "l", "m", "n", "o", "p",
   "q", "r", "s", "t", "u", "v", "w", "x", "y", "z",
   "0", "1", "2", "3", "4", "5", "6", "7", "8", "9", "-"}

\* [\s_]
Separators == Whitespace \cup {"_"}

RECURSIVE dropWhile(_, _)
dropWhile(str, set) ==
  IF str # <<>> /\ Head(str) \in set THEN dropWhile(Tail(str), set) ELSE str

\* .replace(/[set]+/g, by): every run of characters of the set becomes `by`.
RECURSIVE replaceRuns(_, _, _)
replaceRuns(str, set, by) ==
  IF str = <<>> THEN <<>>
  ELSE IF Head(str) \in set THEN by \o replaceRuns(dropWhile(str, set), set, by)
  ELSE <<Head(str)>> \o replaceRuns(Tail(str), set, by)

IsSlugChar(c) == c \in SlugChars

\* .replace(/^-|-$/g, ''): one hyphen at the start and one at the end.
stripHyphens(str) ==
  LET a == IF str # <<>> /\ Head(str) = "-" THEN Tail(str) ELSE str
  IN IF a # <<>> /\ a[Len(a)] = "-" THEN SubSeq(a, 1, Len(a) - 1) ELSE a

generateSlug(name) ==
  stripHyphens(
    replaceRuns(
      SelectSeq(replaceRuns(trim(toLowerCase(name)), Separators, <<"-">>), IsSlugChar),
      {"-"}, <<"-">>))

Digits == <<"0", "1", "2", "3", "4", "5", "6", "7", "8", "9">>

\* `${counter}`
RECURSIVE Decimal(_)
Decimal(n) ==
  IF n < 10 THEN <<Digits[n + 1]>> ELSE Decimal(n \div 10) \o <<Digits[(n % 10) + 1]>>

\* existingInboxes.some(inbox => inbox.slug === slug && inbox.id !== currentInboxId);
\* currentInboxId is an option, a stored slug too.
Collides(slug, existingInboxes, currentInboxId) ==
  \E i \in 1..Len(existingInboxes) :
    /\ existingInboxes[i].slug = Some(slug)
    /\ Some(existingInboxes[i].id) # currentInboxId

\* The while loop of getUniqueSlug.
RECURSIVE uniqueFrom(_, _, _, _, _)
uniqueFrom(slug, counter, baseSlug, existingInboxes, currentInboxId) ==
  IF Collides(slug, existingInboxes, currentInboxId)
    THEN uniqueFrom(baseSlug \o <<"-">> \o Decimal(counter), counter + 1,
                    baseSlug, existingInboxes, currentInboxId)
    ELSE slug

\* getUniqueSlug that starts numbering at 1.
getUniqueSlugFromOne(name, existingInboxes, currentInboxId, random) ==
  LET baseSlug == generateSlug(name)
  IN IF baseSlug = <<>>
       THEN <<"i", "n", "b", "o", "x", "-">> \o random
       ELSE uniqueFrom(baseSlug, 1, baseSlug, existingInboxes, currentInboxId)

\* random: what Math.random().toString(36).substring(2, 8) gives.
getUniqueSlug(name, existingInboxes, currentInboxId, random) ==
  LET baseSlug == generateSlug(name)
  IN IF baseSlug = <<>>
       THEN <<"i", "n", "b", "o", "x", "-">> \o random
       ELSE uniqueFrom(baseSlug, 2, baseSlug, existingInboxes, currentInboxId)

\* The engine's variables: none of them changes when the inbox list does.
engineVars ==
  <<config, serverEnabled, isLoading, isSaving, lastSync, hasInitialSynced,
    hasPendingSave, saveTimeoutRef, saveCleanup, timers, syncInterval, initRun,
    staleProbes, staleLoads, syncLoads, pushes, cache, useServerStorage, file,
    updateCalls, lastCall, unpushed>>

\* Inboxes are added until the list has this many.
MaxInboxes == 3

\* uuidv4() gives an id no inbox has.
Uuids == {"u1", "u2", "u3"}

RandomStrings == {<<"k", "3", "f">>, <<"z", "9", "q">>}

\* Names the user can give an inbox: "My Inbox", "my_inbox", " My - Inbox! ",
\* "My Inbox 2", "&" (no character of a slug), "" (no name).
SlugNames ==
  { <<"M", "y", " ", "I", "n", "b", "o", "x">>,
    <<"m", "y", "_", "i", "n", "b", "o", "x">>,
    <<" ", "M", "y", " ", "-", " ", "I", "n", "b", "o", "x", "!", " ">>,
    <<"M", "y", " ", "I", "n", "b", "o", "x", " ", "2">>,
    <<"&">>,
    <<>> }

\* An inbox of the stored list, without the fields that play no part in its
\* slug (graph id, deployment url, selected).
AgentInbox(id, name, slug) == [id |-> id, name |-> name, slug |-> slug]

MyInbox == <<"m", "y", "-", "i", "n", "b", "o", "x">>

\* The stored list when the page is opened: nothing, inboxes stored before
\* slugs existed, inboxes with slugs.
SlugScenarios ==
  { <<>>,
    <<AgentInbox("u1", <<"M", "y", " ", "I", "n", "b", "o", "x">>, Absent)>>,
    <<AgentInbox("u1", <<"M", "y", " ", "I", "n", "b", "o", "x">>, Absent),
      AgentInbox("u2", <<"m", "y", "_", "i", "n", "b", "o", "x">>, Absent)>>,
    <<AgentInbox("u2", <<"M", "y", " ", "I", "n", "b", "o", "x">>, Some(MyInbox))>>,
    <<AgentInbox("u1", <<"x">>, Some(MyInbox \o <<"-", "2">>))>> }

SlugInit ==
  /\ agentInboxes \in SlugScenarios
  /\ cache = EmptyCache /\ file = Absent /\ useServerStorage = FALSE
  /\ FirstRender
  /\ Quiet

\* addAgentInbox of the add-inbox dialog: a new inbox with a name, no id and
\* no slug yet.
addAgentInbox(name) ==
  /\ Len(agentInboxes) < MaxInboxes
  /\ \E id \in Uuids \ {agentInboxes[i].id : i \in 1..Len(agentInboxes)},
        random \in RandomStrings :
       LET existingInboxes == agentInboxes
           newInbox ==
             AgentInbox(id, name,
                        IF name # <<>>
                          THEN Some(getUniqueSlug(name, existingInboxes, Absent, random))
                          ELSE Absent)
       IN agentInboxes' = Append(agentInboxes, newInbox)
  /\ UNCHANGED <<engineVars, draftVars, serverVars, callerVars>>

\* getAgentInboxes when the page has no inbox parameter in its URL: every
\* inbox without a slug gets one, computed against the list as it was read,
\* and the list is stored.  With the parameter the list is not stored.
getAgentInboxes(random) ==
  /\ LET currentInboxes == agentInboxes
     IN agentInboxes' =
          [i \in 1..Len(currentInboxes) |->
             LET inbox == currentInboxes[i]
             IN AgentInbox(inbox.id, inbox.name,
                           IF inbox.slug # Absent THEN inbox.slug
                           ELSE IF inbox.name # <<>>
                             THEN Some(getUniqueSlug(inbox.name, currentInboxes,
                                                     Some(inbox.id), random))
                             ELSE Absent)]
  /\ UNCHANGED <<engineVars, draftVars, serverVars, callerVars>>

SlugNext ==
  \/ \E name \in SlugNames : addAgentInbox(name)
  \/ \E random \in RandomStrings : getAgentInboxes(random)

SlugSpec == SlugInit /\ [][SlugNext]_vars

\* The slugs of the inboxes other than currentInboxId.
OtherSlugs(existingInboxes, currentInboxId) ==
  {existingInboxes[i].slug[1] :
     i \in {n \in 1..Len(existingInboxes) :
              /\ existingInboxes[n].slug # Absent
              /\ Some(existingInboxes[n].id) # currentInboxId}}

Numbered(baseSlug, k) == baseSlug \o <<"-">> \o Decimal(k)

\* What C23 says of getUniqueSlug for one list of existing inboxes.
UniqueSlugContract(existingInboxes) ==
  \A name \in SlugNames, random \in RandomStrings,
     currentInboxId \in {Absent} \cup {Some(id) : id \in Uuids} :
    LET baseSlug == generateSlug(name)
        others == OtherSlugs(existingInboxes, currentInboxId)
        slug == getUniqueSlug(name, existingInboxes, currentInboxId, random)
    IN baseSlug # <<>> =>
         /\ slug \notin others
         /\ baseSlug \notin others => slug = baseSlug
         /\ baseSlug \in others =>
              \E k \in 2..(Len(existingInboxes) + 2) :
                /\ slug = Numbered(baseSlug, k)
                /\ \A j \in 2..(k - 1) : Numbered(baseSlug, j) \in others

\* C23: getUniqueSlug(name, existing, currentId) with a non-empty base slug
\* returns the base slug if no other inbox uses it, otherwise base-k for the
\* smallest k >= 2 that no other inbox uses, and never the slug of an
\* existing inbox other than currentId; the inbox addAgentInbox appends has
\* that slug, so that a second "My Inbox" gets my-inbox-2.
C23_UniqueSlug ==
  [][ /\ UniqueSlugContract(agentInboxes) /\ UniqueSlugContract(agentInboxes')
      /\ \A name \in SlugNames :
           addAgentInbox(name) /\ generateSlug(name) # <<>> =>
             LET new == agentInboxes'[Len(agentInboxes')]
                 others == OtherSlugs(agentInboxes, Absent)
             IN /\ new.slug # Absent
                /\ new.slug[1] \notin others
                /\ generateSlug(name) = MyInbox /\ others = {MyInbox} =>
                     new.slug[1] = <<"m", "y", "-", "i", "n", "b", "o", "x", "-", "2">>
    ]_vars

\* Two inboxes named "My Inbox" were added to an empty list and have the
\* slugs my-inbox and my-inbox-2.
C23_Witness ==
  /\ Len(agentInboxes) = 2
  /\ \A i \in 1..2 : agentInboxes[i].name = <<"M", "y", " ", "I", "n", "b", "o", "x">>
  /\ agentInboxes[1].slug = Some(MyInbox)
  /\ agentInboxes[2].slug = Some(<<"m", "y", "-", "i", "n", "b", "o", "x", "-", "2">>)

\* ------------------------------------------------ the server, call by call
\* The route handlers and the functions of config-storage.ts, one step per
\* file operation they await: calls of several clients interleave there.

\* Calls the server handles at the same time.
MaxHandlers == 2

\* A file that was opened for writing (and so emptied) and not written yet:
\* JSON.parse rejects its content.
Truncated == <<"opened", "empty">>

\* An "inboxes" value that is no array.
NotAnArray == <<"not", "array">>

\* Request bodies: a document of a browser, one without inboxes, one whose
\* "inboxes" is no array, one with an inbox without a name, one with an
\* inbox whose id is the empty string.
BrowserDoc == Doc(Absent, Some("old"), Some("k0"), Some(<<InboxA>>), Some(PrefsDark), Absent)

Bodies ==
  { BrowserDoc,
    [BrowserDoc EXCEPT !.inboxes = Absent],
    [BrowserDoc EXCEPT !.inboxes = NotAnArray],
    [BrowserDoc EXCEPT !.inboxes = Some(<<InboxA, [id |-> "b"]>>)],
    [BrowserDoc EXCEPT !.inboxes = Some(<<[id |-> "", name |-> "Inbox A"]>>)] }

\* call: the entry point; phase: the file operation it awaits; body: the
\* document it is saving; fd: where the file it has opened is now.
Handler(call, phase, body, fd) == [call |-> call, phase |-> phase, body |-> body, fd |-> fd]

\* NextResponse.json(...) of a route handler.
Response(to, status, enabled, cfg) ==
  [to |-> to, status |-> status, enabled |-> enabled, config |-> cfg]

\* What loadConfig or saveConfig returns to a direct caller: a document as an
\* option, Absent for null.
Returned(to, value) == [to |-> to, value |-> value]

\* What deleteConfig returns to a direct caller.
Deleted(success) == [to |-> "deleteConfig", success |-> success]

isServerStorageEnabled == useServerStorage

\* The browsers' variables: no step of the server touches them.
browserVars ==
  <<config, serverEnabled, isLoading, isSaving, lastSync, hasInitialSynced,
    hasPendingSave, saveTimeoutRef, saveCleanup, timers, syncInterval, initRun,
    staleProbes, staleLoads, syncLoads, pushes, cache, useServerStorage,
    updateCalls, lastCall, unpushed, draftVars, inboxVars, callerVars>>

\* The call goes on to a file operation.
Await(h) ==
  /\ Cardinality(handlers) < MaxHandlers
  /\ h \notin handlers
  /\ handlers' = handlers \cup {h}
  /\ lastResponse' = Absent
  /\ UNCHANGED <<file, tmpFile, seedings, browserVars>>

\* The call ends before any file operation.
Return(r) ==
  /\ lastResponse' = Some(r)
  /\ UNCHANGED <<file, tmpFile, handlers, seedings, browserVars>>

\* !body.inboxes || !Array.isArray(body.inboxes), then !inbox.id || !inbox.name
ValidStructure(body) ==
  /\ body.inboxes # Absent /\ body.inboxes # NotAnArray
  /\ \A i \in 1..Len(body.inboxes[1]) :
       \A k \in {"id", "name"} :
         k \in DOMAIN body.inboxes[1][i] /\ body.inboxes[1][i][k] # ""

handleGET ==
  IF ~isServerStorageEnabled
    THEN Return(Response("GET", 200, FALSE, Absent))
    ELSE Await(Handler("GET", "readFile", Absent, "none"))

handlePOST(body) ==
  IF ~isServerStorageEnabled
    THEN Return(Response("POST", 200, FALSE, Absent))
  ELSE IF ~ValidStructure(body)
    THEN Return(Response("POST", 400, FALSE, Absent))
  ELSE Await(Handler("POST", "open", Some(body), "none"))

handleDELETE ==
  IF ~isServerStorageEnabled
    THEN Return(Response("DELETE", 200, FALSE, Absent))
    ELSE Await(Handler("DELETE", "unlink", Absent, "none"))

\* loadConfig, saveConfig and deleteConfig called directly (exportConfig,
\* importConfig, any other module).  loadConfig that reads the file whatever
\* the flag says comes first.
callLoadConfigUnguarded == Await(Handler("loadConfig", "readFile", Absent, "none"))

callLoadConfig ==
  IF ~useServerStorage
    THEN Return(Returned("loadConfig", Absent))
    ELSE Await(Handler("loadConfig", "readFile", Absent, "none"))

callSaveConfig(body) ==
  IF ~useServerStorage
    THEN Return(Returned("saveConfig", Absent))
    ELSE Await(Handler("saveConfig", "open", Some(body), "none"))

callDeleteConfig ==
  IF ~useServerStorage
    THEN Return(Deleted(FALSE))
    ELSE Await(Handler("deleteConfig", "unlink", Absent, "none"))

\* The initialConfig of GET.
initialConfig ==
  Doc(Some("1.0.0"), Some("ts"), getEnvDefaultConfig.langsmithApiKey,
      getEnvDefaultConfig.inboxes, getEnvDefaultConfig.preferences, Absent)

\* The call h ends with r.
End(h, r) ==
  /\ handlers' = handlers \ {h}
  /\ lastResponse' = Some(r)

\* fs.readFile and JSON.parse of loadConfig: null when the file is missing
\* or does not parse.  GET answers with the document, or goes on to store
\* the defaults: saveConfig(initialConfig).
readFile(h) ==
  /\ h \in handlers /\ h.phase = "readFile"
  /\ LET loaded == IF file = Truncated THEN Absent ELSE file
     IN IF h.call = "loadConfig"
          THEN End(h, Returned("loadConfig", loaded))
        ELSE IF loaded # Absent
          THEN End(h, Response("GET", 200, TRUE, loaded))
        ELSE /\ handlers' = (handlers \ {h})
                              \cup {Handler("GET", "open", Some(initialConfig), "none")}
             /\ lastResponse' = Absent
  /\ UNCHANGED <<file, tmpFile, seedings, browserVars>>

\* fs.writeFile(tempFile, ...), first half: the file is opened and emptied.
\* A call that had opened it before holds the same file.
openTemp(h) ==
  /\ h \in handlers /\ h.phase = "open"
  /\ tmpFile' = Truncated
  /\ handlers' = (handlers \ {h}) \cup {Handler(h.call, "write", h.body, "tmp")}
  /\ lastResponse' = Absent
  /\ UNCHANGED <<file, seedings, browserVars>>

\* fs.writeFile, second half: configWithMeta is written to the file that was
\* opened, under whatever name that file has by now.
writeTemp(h) ==
  /\ h \in handlers /\ h.phase = "write"
  /\ LET configWithMeta == saveConfig(h.body[1])
     IN /\ tmpFile' = IF h.fd = "tmp" THEN Some(configWithMeta) ELSE tmpFile
        /\ file' = IF h.fd = "config" THEN Some(configWithMeta) ELSE file
  /\ handlers' = (handlers \ {h}) \cup {Handler(h.call, "rename", h.body, h.fd)}
  /\ lastResponse' = Absent
  /\ UNCHANGED <<seedings, browserVars>>

\* Where an open file is after the temporary file got the name CONFIG_FILE.
Renamed(g) ==
  [g EXCEPT !.fd = CASE g.fd = "tmp" -> "config"
                     [] g.fd = "config" -> "gone"
                     [] OTHER -> g.fd]

\* What the caller of saveConfig makes of its result (Absent: null).
Saved(h, result) ==
  CASE h.call = "POST" ->
         IF result = Absent THEN Response("POST", 500, FALSE, Absent)
         ELSE Response("POST", 200, TRUE, result)
    [] h.call = "GET" ->
         Response("GET", 200, TRUE, IF result = Absent THEN h.body ELSE result)
    [] OTHER -> Returned("saveConfig", result)

\* fs.rename(tempFile, CONFIG_FILE): fails when another call has renamed the
\* temporary file away, and saveConfig then returns null.
rename(h) ==
  /\ h \in handlers /\ h.phase = "rename"
  /\ IF tmpFile = Absent
       THEN /\ End(h, Saved(h, Absent))
            /\ UNCHANGED <<file, tmpFile, seedings>>
       ELSE /\ file' = tmpFile
            /\ tmpFile' = Absent
            /\ handlers' = {Renamed(g) : g \in handlers \ {h}}
            /\ lastResponse' = Some(Saved(h, Some(saveConfig(h.body[1]))))
            /\ seedings' = IF h.call = "GET"
                             THEN (IF seedings = 0 THEN 1 ELSE 2)
                             ELSE seedings
  /\ UNCHANGED browserVars

\* deleteConfig that reports a failure when there is no file.
unlinkStrict(h) ==
  /\ h \in handlers /\ h.phase = "unlink"
  /\ file' = Absent
  /\ handlers' = {IF g.fd = "config" THEN [g EXCEPT !.fd = "gone"] ELSE g :
                    g \in handlers \ {h}}
  /\ lastResponse' = Some(IF h.call = "DELETE"
                            THEN Response("DELETE", IF file = Absent THEN 500 ELSE 200,
                                          file # Absent, Absent)
                            ELSE Deleted(file # Absent))
  /\ UNCHANGED <<tmpFile, seedings, browserVars>>

\* fs.unlink(CONFIG_FILE) of deleteConfig; ENOENT counts as deleted.
unlink(h) ==
  /\ h \in handlers /\ h.phase = "unlink"
  /\ file' = Absent
  /\ handlers' = {IF g.fd = "config" THEN [g EXCEPT !.fd = "gone"] ELSE g :
                    g \in handlers \ {h}}
  /\ lastResponse' = Some(IF h.call = "DELETE"
                            THEN Response("DELETE", 200, TRUE, Absent)
                            ELSE Deleted(TRUE))
  /\ UNCHANGED <<tmpFile, seedings, browserVars>>

\* The server process stops and is started again: the calls are gone, the
\* files are what they were.
crash ==
  /\ handlers # {}
  /\ handlers' = {}
  /\ lastResponse' = Absent
  /\ UNCHANGED <<file, tmpFile, seedings, browserVars>>

\* The server when the browsers are started: with or without the flag, with
\* or without a stored document; the browser holds a document of its own.
ServerInit ==
  /\ useServerStorage \in BOOLEAN
  /\ file \in {Absent, Some(RemoteDoc)}
  /\ cache = CacheA
  /\ FirstRender
  /\ agentInboxes = <<>>
  /\ Quiet

ServerNext ==
  \/ handleGET
  \/ \E body \in Bodies : handlePOST(body)
  \/ handleDELETE
  \/ callLoadConfig
  \/ \E body \in {BrowserDoc} : callSaveConfig(body)
  \/ callDeleteConfig
  \/ \E h \in handlers : readFile(h)
  \/ \E h \in handlers : openTemp(h)
  \/ \E h \in handlers : writeTemp(h)
  \/ \E h \in handlers : rename(h)
  \/ \E h \in handlers : unlink(h)
  \/ crash

ServerSpec == ServerInit /\ [][ServerNext]_vars

\* C24: with remote storage disabled by the flag the adapter does no file
\* I/O.  loadConfig returns null, saveConfig returns null, deleteConfig
\* returns false, GET replies enabled = false without a config; no call gets
\* as far as a file operation, and neither CONFIG_FILE nor the temporary file
\* is created or changed.
C24_DisabledNoIO ==
  [][ ~useServerStorage =>
        /\ file' = file /\ tmpFile' = tmpFile
        /\ handlers = {} /\ handlers' = {}
        /\ callLoadConfig =>
             lastResponse'[1].to = "loadConfig" /\ lastResponse'[1].value = Absent
        /\ \A body \in Bodies :
             callSaveConfig(body) =>
               lastResponse'[1].to = "saveConfig" /\ lastResponse'[1].value = Absent
        /\ callDeleteConfig =>
             lastResponse'[1].to = "deleteConfig" /\ ~lastResponse'[1].success
        /\ handleGET =>
             /\ lastResponse'[1].to = "GET"
             /\ ~lastResponse'[1].enabled
             /\ lastResponse'[1].config = Absent ]_vars

\* The flag is off, a document lies in CONFIG_FILE from an earlier
\* deployment, and deleteConfig has just returned false without touching it.
C24_Witness ==
  /\ ~useServerStorage
  /\ file = Some(RemoteDoc)
  /\ lastResponse # Absent
  /\ lastResponse[1].to = "deleteConfig" /\ ~lastResponse[1].success

\* C25: seeding happens at most once.  Over any sequence of pulls, pushes and
\* deletes at most one GET stores the environment defaults, and a GET that
\* answers after the seeding answers with the stored document.
C25_SeedsOnce ==
  [][ /\ seedings' <= 1
      /\ \A h \in handlers :
           /\ seedings >= 1 /\ h.call = "GET"
           /\ h \notin handlers' /\ lastResponse' # Absent
           /\ lastResponse'[1].to = "GET"
           => lastResponse'[1].config = file' ]_vars

\* C26: atomic remote persistence.  At every point of a save, a crash
\* included, CONFIG_FILE holds a complete document (the previous one or the
\* new one) or does not exist: never a partial one.
C26_AtomicSave == file # Truncated

\* A payload whose inboxes field is missing or no array, or with an inbox
\* that lacks id or name (an empty one counts as lacking).
Malformed(body) ==
  \/ body.inboxes \in {Absent, NotAnArray}
  \/ \E i \in 1..Len(body.inboxes[1]) :
       LET inbox == body.inboxes[1][i]
       IN \/ "id" \notin DOMAIN inbox \/ "name" \notin DOMAIN inbox
          \/ inbox.id = "" \/ inbox.name = ""

\* C27: save validation.  With remote storage enabled, a POST of a malformed
\* payload is answered with an error and changes no file; the POST of a
\* well-formed payload ends with the payload persisted in CONFIG_FILE and
\* returned, with the lastUpdated the server has set.
C27_SaveValidation ==
  [][ useServerStorage =>
        /\ \A body \in Bodies :
             handlePOST(body) /\ Malformed(body) =>
               /\ lastResponse' # Absent /\ lastResponse'[1].status >= 400
               /\ file' = file /\ tmpFile' = tmpFile /\ handlers' = handlers
        /\ \A body \in Bodies :
             handlePOST(body) /\ ~Malformed(body) =>
               \E h \in handlers' \ handlers : h.call = "POST" /\ h.body = Some(body)
        /\ \A h \in handlers :
             h.call = "POST" /\ rename(h) =>
               /\ lastResponse'[1].to = "POST" /\ lastResponse'[1].status = 200
               /\ lastResponse'[1].config
                    = Some([h.body[1] EXCEPT !.version = Some("1.0.0"),
                                             !.lastUpdated = Some("ts")])
               /\ file' = lastResponse'[1].config ]_vars

Content(d) == [k \in STORAGE_KEYS |-> d[k]]

\* The document a fresh engine (nothing in localStorage) is handed by its
\* first loadFromServer when its GET is the only request being served and
\* CONFIG_FILE holds f: loadConfig returns null for a file that does not
\* parse, and GET then stores and returns the defaults.
freshPull(f) ==
  LET loaded == IF f = Truncated THEN Absent ELSE f
      served == IF loaded # Absent THEN loaded ELSE Some(saveConfig(initialConfig))
  IN loadFromServer(Reply("json", TRUE, TRUE, served)).applied

\* C29: push/pull round trip.  When a push of the document in memory has
\* succeeded (the POST answers 200 and saveToServer returns true), the pull
\* of a fresh engine returns a document with the same inboxes, API key,
\* preferences and drafts as the pushed one.
C29_RoundTrip ==
  [][ \A h \in handlers :
        /\ h.call = "POST" /\ rename(h)
        /\ lastResponse'[1].to = "POST" /\ lastResponse'[1].status = 200
        /\ saveToServer(Reply("json", TRUE, lastResponse'[1].enabled,
                              lastResponse'[1].config)) = "true"
        => /\ freshPull(file') # Absent
           /\ Content(freshPull(file')[1]) = Content(h.body[1]) ]_vars

\* ------------------------------------- hooks/use-persistent-config.tsx
(***************************************************************************)
(* The hook the application imports.  It has no drafts slot, no immediate  *)
(* saves and no pending-save flag; its initialize() pushes the browser's   *)
(* document when the first pull has loaded nothing.  checkServerStatus and *)
(* saveToServer have the same text in both hooks.  The page is followed    *)
(* from its opening: the probe, the first sync, and what the effects do    *)
(* afterwards by themselves (the debounced save, the periodic pull).       *)
(***************************************************************************)
MaxPushes == 2        \* saveToServer requests of the hook in flight at the same time

\* The object built in the try block of loadFromLocalStorage.
loadFromLocalStorageLegacyTry(c) ==
  Doc(Absent, Absent,
      IF Truthy(c.langsmithApiKey) THEN c.langsmithApiKey ELSE Absent,
      IF c.inboxes # Absent THEN c.inboxes ELSE Some(<<>>),
      IF c.preferences # Absent THEN c.preferences ELSE Some(EmptyObj),
      Absent)

\* loadFromLocalStorage: the catch returns { inboxes: [] }.
loadFromLocalStorageLegacy(c) ==
  IF \E k \in {"inboxes", "preferences"} : c[k] = Unparsable
    THEN ZeroDoc
    ELSE loadFromLocalStorageLegacyTry(c)

\* saveToLocalStorage: the slots of c after config d is saved.
saveToLocalStorageLegacy(d, c) ==
  Slots(d.inboxes,
        IF Truthy(d.langsmithApiKey) THEN d.langsmithApiKey ELSE Absent,
        d.preferences,
        c.drafts)

\* loadFromServer.  The reply of GET /api/config never has a `defaults`
\* field, so without data.config the merge branch is skipped and the
\* function returns false.
loadFromServerLegacy(reply) ==
  IF reply.kind = "neterr" THEN Outcome("false", Absent)
  ELSE IF ~reply.ok THEN Outcome("false", Absent)
  ELSE IF reply.kind = "malformed" THEN Outcome("false", Absent)
  ELSE IF ~reply.enabled THEN Outcome("false", Absent)
  ELSE IF reply.config # Absent THEN Outcome("true", reply.config)
  ELSE Outcome("false", Absent)

\* The hook after an event's handler has run and before the render.
LegacyHook ==
  [config |-> config, cfgSet |-> FALSE, serverEnabled |-> serverEnabled,
   isLoading |-> isLoading, hasInitialSynced |-> hasInitialSynced,
   initRun |-> initRun, timers |-> timers, pushes |-> pushes, file |-> file]

(***************************************************************************)
(* The render and the three effects.  The initialize effect re-runs when   *)
(* config was set (loadFromServer and saveToServer depend on config).      *)
(* config is set only by an applied pull, and no pull is applied while an  *)
(* initialize() awaits its loadFromServer or saveToServer; a superseded    *)
(* run that awaits checkServerStatus returns at `if (!mounted) return`,    *)
(* and its GET finds the file the earlier probe has left.  The sync effect *)
(* arms the interval when serverEnabled && !isLoading.  The save effect    *)
(* clears its timer and, past its guard, arms one that closes over config. *)
(***************************************************************************)
RenderLegacy(h) ==
  LET changed == h.cfgSet \/ h.serverEnabled # serverEnabled \/ h.isLoading # isLoading
  IN /\ config' = h.config
     /\ serverEnabled' = h.serverEnabled
     /\ isLoading' = h.isLoading
     /\ hasInitialSynced' = h.hasInitialSynced
     /\ file' = h.file
     /\ pushes' = h.pushes
     /\ initRun' = IF h.cfgSet THEN "probing" ELSE h.initRun
     /\ syncInterval' = (h.serverEnabled /\ ~h.isLoading)
     /\ timers' = IF ~changed THEN h.timers
                  ELSE IF h.serverEnabled /\ ~h.isLoading /\ h.hasInitialSynced
                    THEN {h.config}
                  ELSE {}

\* What no step of this hook changes.
legacyFrame ==
  <<isSaving, hasPendingSave, saveTimeoutRef, saveCleanup, staleProbes, staleLoads,
    useServerStorage, updateCalls, lastCall, unpushed, draftVars, inboxVars, callerVars,
    tmpFile, handlers, lastResponse>>

\* seedings after a GET with the given outcome is served.
Seeded(outcome) ==
  IF outcome = "ok" /\ useServerStorage /\ file = Absent /\ seedings < 2
    THEN seedings + 1 ELSE seedings

MigrationScenarios ==
  { <<c, f, e>> : c \in { EmptyCache, CacheA,
                          Slots(Some(<<InboxA, InboxB>>), Absent, Absent, Absent),
                          Slots(Some(<<InboxA>>), Some("k0"), Unparsable, Absent) },
                  f \in {Absent, Some(RemoteDoc)},
                  e \in BOOLEAN }

\* The hook after its first render.
MigrationInit ==
  /\ \E sc \in MigrationScenarios :
       cache = sc[1] /\ file = sc[2] /\ useServerStorage = sc[3]
  /\ config = loadFromLocalStorageLegacy(cache)
  /\ serverEnabled = FALSE /\ isLoading = TRUE /\ isSaving = FALSE
  /\ lastSync = FALSE /\ hasInitialSynced = FALSE /\ hasPendingSave = FALSE
  /\ saveTimeoutRef = Absent /\ saveCleanup = FALSE /\ timers = {}
  /\ syncInterval = FALSE /\ initRun = "probing"
  /\ staleProbes = 0 /\ staleLoads = 0 /\ syncLoads = 0
  /\ pushes = <<>> /\ updateCalls = 0 /\ lastCall = Absent /\ unpushed = FALSE
  /\ draftTimers = {} /\ autoSaveTimeouts = EmptyObj /\ clock = 0
  /\ lastDraftCall = Absent /\ mounted = TRUE
  /\ popoverConfig = loadFromLocalStorageLegacy(cache)
  /\ agentInboxes = <<>>
  /\ Quiet

\* The reply to checkServerStatus reaches the running initialize().
initializeLegacy(outcome) ==
  LET served == GET(file, useServerStorage)
      enabled == checkServerStatus(Deliver(outcome, served.reply))
      first == enabled /\ ~hasInitialSynced
  IN /\ initRun = "probing"
     /\ RenderLegacy([LegacyHook EXCEPT
                        !.serverEnabled = enabled,
                        !.initRun = IF first THEN "loading" ELSE "done",
                        !.isLoading = IF first THEN isLoading ELSE FALSE,
                        !.file = IF outcome = "ok" THEN served.file ELSE file])
     /\ seedings' = Seeded(outcome)
     /\ UNCHANGED <<cache, lastSync, syncLoads, legacyFrame>>

\* The reply to a loadFromServer request arrives: of the running
\* initialize() (origin "initialize") or of syncWithServer ("sync").
\* initialize() goes on to `await saveToServer()` when nothing was loaded
\* and the config it closes over has inboxes.
loadResponseLegacy(origin, outcome) ==
  LET served == GET(file, useServerStorage)
      load == loadFromServerLegacy(Deliver(outcome, served.reply))
      applied == load.applied # Absent
      first == origin = "initialize"
      push == first /\ load.result # "true" /\ Len(config.inboxes[1]) > 0
  IN /\ IF first THEN initRun = "loading" ELSE syncLoads > 0
     /\ cache' = IF applied THEN saveToLocalStorageLegacy(load.applied[1], cache)
                 ELSE cache
     /\ lastSync' = (applied \/ lastSync)
     /\ syncLoads' = IF first THEN syncLoads ELSE syncLoads - 1
     /\ RenderLegacy([LegacyHook EXCEPT
                        !.config = IF applied THEN load.applied[1] ELSE config,
                        !.cfgSet = applied,
                        !.initRun = IF ~first THEN initRun
                                    ELSE IF push THEN "pushing" ELSE "done",
                        !.hasInitialSynced = IF first /\ ~push THEN TRUE
                                             ELSE hasInitialSynced,
                        !.isLoading = IF first /\ ~push THEN FALSE ELSE isLoading,
                        !.pushes = IF push THEN Append(pushes, config) ELSE pushes,
                        !.file = IF outcome = "ok" THEN served.file ELSE file])
     /\ seedings' = Seeded(outcome)
     /\ UNCHANGED legacyFrame

\* The reply to the i-th saveToServer request in flight arrives.  While
\* initialize() awaits its push no other push is in flight (the save
\* effect returns early until hasInitialSynced is set).
saveResponseLegacy(i, outcome) ==
  /\ i \in 1..Len(pushes)
  /\ LET served == POST(file, useServerStorage, pushes[i])
         success == saveToServer(Deliver(outcome, served.reply)) = "true"
         first == initRun = "pushing"
     IN /\ lastSync' = (success \/ lastSync)
        /\ RenderLegacy([LegacyHook EXCEPT
                           !.pushes = RemoveAt(pushes, i),
                           !.initRun = IF first THEN "done" ELSE initRun,
                           !.hasInitialSynced = first \/ hasInitialSynced,
                           !.isLoading = IF first THEN FALSE ELSE isLoading,
                           !.file = IF outcome = "ok" THEN served.file ELSE file])
  /\ UNCHANGED <<cache, syncLoads, seedings, legacyFrame>>

\* The debounce timer of the save effect fires: saveToServer().
saveTimeoutLegacy(c) ==
  /\ c \in timers
  /\ Len(pushes) < MaxPushes
  /\ timers' = timers \ {c}
  /\ pushes' = Append(pushes, c)
  /\ UNCHANGED <<config, serverEnabled, isLoading, hasInitialSynced, file, initRun,
                 syncInterval, cache, lastSync, syncLoads, seedings, legacyFrame>>

\* The interval fires: syncWithServer calls loadFromServer.
syncWithServerLegacy ==
  /\ syncInterval /\ serverEnabled
  /\ syncLoads < MaxSyncLoads
  /\ syncLoads' = syncLoads + 1
  /\ UNCHANGED <<config, serverEnabled, isLoading, hasInitialSynced, file, initRun,
                 syncInterval, timers, pushes, cache, lastSync, seedings, legacyFrame>>

MigrationNext ==
  \/ \E o \in Outcomes : initializeLegacy(o)
  \/ \E origin \in {"initialize", "sync"}, o \in Outcomes : loadResponseLegacy(origin, o)
  \/ \E i \in 1..MaxPushes, o \in Outcomes : saveResponseLegacy(i, o)
  \/ \E c \in timers : saveTimeoutLegacy(c)
  \/ syncWithServerLegacy

MigrationSpec == MigrationInit /\ [][MigrationNext]_vars

\* The first sync of a browser that holds inboxes, with a server store
\* that held no document when the page was opened (this session's GET
\* seeded it).
Migrating == seedings > 0 /\ Len(config.inboxes[1]) > 0

\* C30: migration to server storage.  When the first loadFromServer of
\* initialize() returns in a browser that holds inboxes, and the server
\* store had no document before this session, the browser's document is
\* pushed to the server, and the inboxes in memory and in localStorage
\* stay the browser's.
C30_Migration ==
  [][ \A o \in Outcomes :
        loadResponseLegacy("initialize", o) /\ Migrating =>
          /\ pushes' = <<config>>
          /\ config'.inboxes = config.inboxes
          /\ cache'.inboxes = cache.inboxes ]_vars

\* C31: no two inboxes of the stored list have the same slug (an inbox
\* whose name has no slug character gets a random slug and is left aside).
C31_SlugsDistinct ==
  \A i, j \in 1..Len(agentInboxes) :
    /\ i # j
    /\ agentInboxes[i].slug # Absent /\ agentInboxes[j].slug # Absent
    /\ generateSlug(agentInboxes[i].name) # <<>>
    /\ generateSlug(agentInboxes[j].name) # <<>>
    => agentInboxes[i].slug # agentInboxes[j].slug

\* C32: the success of a push that carried an older document, while an
\* update made since has not been confirmed by a push of the present
\* document, leaves hasPendingSave set.
C32_PendingKept ==
  [][ \A i \in 1..Len(pushes), o \in Outcomes :
        /\ saveResponse(i, o) /\ PushReply(i, o) = "true"
        /\ hasPendingSave /\ unpushed /\ pushes[i] # config
        => hasPendingSave' ]_vars

\* ------------------------------------------------- every request succeeds
\* The engine with a network and a server that never fail: every fetch
\* gets the reply the route sends.
SuccessNext ==
  \/ \E u \in Updates, immediate \in BOOLEAN :
       updateConfig(u, immediate) /\ UNCHANGED auxVars
  \/ \E c \in timers : saveTimeout(c)
  \/ syncWithServer
  \/ initialize("ok")
  \/ staleInitialize
  \/ \E origin \in LoadOrigins : loadResponse(origin, "ok")
  \/ \E i \in 1..Len(pushes) : saveResponse(i, "ok")

SuccessSpec == Init /\ [][SuccessNext]_vars

\* Nothing is in flight and no timer is armed.
Settled ==
  /\ pushes = <<>> /\ timers = {}
  /\ syncLoads = 0 /\ staleLoads = 0 /\ staleProbes = 0
  /\ initRun = "done" /\ ~isLoading

\* C33: convergence.  With remote storage enabled and every request
\* succeeding, whenever nothing is in flight the content of CONFIG_FILE
\* equals the document in memory, and localStorage holds that document.
C33_Convergence ==
  Settled /\ serverEnabled =>
    /\ file # Absent
    /\ Content(file[1]) = Content(config)
    /\ cache = Stored(config)

\* Timers fire and every request gets its reply.
SuccessFairSpec ==
  /\ SuccessSpec
  /\ WF_vars(\E c \in timers : saveTimeout(c))
  /\ WF_vars(syncWithServer)
  /\ WF_vars(initialize("ok"))
  /\ WF_vars(staleInitialize)
  /\ WF_vars(\E origin \in LoadOrigins : loadResponse(origin, "ok"))
  /\ WF_vars(\E i \in 1..Len(pushes) : saveResponse(i, "ok"))

\* Document d has the values updates gave.
Includes(d, updates) == \A k \in DOMAIN updates : d[k] = updates[k]

\* C34: push liveness.  With every request succeeding, timers firing and
\* replies arriving, an updateConfig(u) made in READY with remote storage
\* enabled is followed by a state in which the server has stored a pushed
\* document with u's values, and from then on hasPendingSave gets clear.
C34_PushLiveness ==
  \A u \in Updates :
    (lastCall # Absent /\ lastCall[1].updates = u /\ Ready)
      ~> (file # Absent /\ Includes(file[1], u) /\ <>(~hasPendingSave))

\* The reply to a loadFromServer request of hooks/use-persistent-config.tsx
\* carries a document, which the hook applies.
PullAppliedLegacy ==
  \E origin \in {"initialize", "sync"}, o \in Outcomes :
    /\ loadResponseLegacy(origin, o)
    /\ loadFromServerLegacy(Deliver(o, GET(file, useServerStorage).reply)).applied
         # Absent

\* C35: no echo push.  Applying a pulled document arms no save timer and
\* sends no push: the hook sends nothing the user has not changed.
C35_NoEchoPush ==
  [][ PullAppliedLegacy => timers' \subseteq timers /\ pushes' = pushes ]_vars

\* ------------------------------------- two callers of usePersistentConfig
(***************************************************************************)
(* usePersistentConfig is a plain hook: each component that calls it has   *)
(* its own useState config, read from localStorage when the component is   *)
(* mounted.  useDraftStorage holds one (config), SettingsPopover another   *)
(* (popoverConfig).  Remote storage is off, so that in the popover's hook  *)
(* serverEnabled stays false, its save effect returns early and its        *)
(* updateConfig does no more than setConfig and saveToLocalStorage.        *)
(***************************************************************************)
CallersScenarios ==
  { EmptyCache,
    Slots(Some(<<InboxA>>), Absent, Some(PrefsDark), Some(DraftsT1)) }

CallersInit ==
  /\ cache \in CallersScenarios
  /\ file = Absent /\ useServerStorage = FALSE
  /\ FirstRender
  /\ agentInboxes = <<>>
  /\ Quiet

\* onCheckedChange of the "Enable notifications" checkbox of SettingsPopover:
\* updateConfig({preferences: {...config.preferences, notifications: {...}}})
\* on the popover's own hook.
onCheckedChange(checked) ==
  LET notifications == Field(popoverConfig.preferences, "notifications")
      kept(k) == IF Field(notifications, k) = Absent THEN TRUE
                 ELSE Field(notifications, k)[1]
      updates == [preferences |->
                    Some(Put(Spread(popoverConfig.preferences), "notifications",
                             [enabled |-> checked, sound |-> kept("sound"),
                              desktop |-> kept("desktop")]))]
      updated == Merge(popoverConfig, updates)
  IN /\ mounted
     /\ popoverConfig' = updated
     /\ cache' = saveToLocalStorage(updated)
     /\ lastCall' = Absent
     /\ lastDraftCall' = Absent
     /\ UNCHANGED <<config, serverEnabled, isLoading, isSaving, lastSync,
                    hasInitialSynced, hasPendingSave, saveTimeoutRef, saveCleanup,
                    timers, syncInterval, initRun, staleProbes, staleLoads,
                    syncLoads, pushes, useServerStorage, file, updateCalls,
                    unpushed, draftTimers, autoSaveTimeouts, clock, mounted>>
     /\ UNCHANGED <<inboxVars, serverVars>>

CallersNext ==
  \/ \E threadId \in ThreadIds, content \in DraftContents : saveDraft(threadId, content)
  \/ \E t \in draftTimers : draftTimeout(t)
  \/ \E threadId \in ThreadIds : discardDraft(threadId)
  \/ Tick
  \/ \E o \in Outcomes : initialize(o)
  \/ \E checked \in BOOLEAN : onCheckedChange(checked)

CallersSpec == CallersInit /\ [][CallersNext]_vars

\* C36: one document for all callers.  An update of preferences made
\* through the popover's hook leaves the drafts slot of localStorage as the
\* draft manager's update left it, and after the draft manager's update
\* the popover's hook reads the updated drafts.
C36_SharedDocument ==
  [][ /\ \A checked \in BOOLEAN :
           onCheckedChange(checked) =>
             loadFromLocalStorage(cache').drafts = loadFromLocalStorage(cache).drafts
      /\ (\E t \in draftTimers : draftTimeout(t))
           => popoverConfig'.drafts = config'.drafts ]_vars

\* C37: seeding never clobbers a pushed document.  A GET that found nothing
\* stored and goes on to store the defaults does not replace a document that
\* a save has stored in the meantime: when the rename of a seeding GET
\* completes, a document that CONFIG_FILE held is still the one it holds.
C37_SeedingKeepsPushed ==
  [][ \A h \in handlers :
        /\ h.call = "GET" /\ rename(h)
        /\ file # Absent /\ file # Truncated
        => file' = file ]_vars

\* C38: the result of a save is accurate when two saveConfig calls overlap.
\* A call whose rename succeeds returns its document, and CONFIG_FILE then
\* holds exactly that document; a call whose rename fails returns null, and
\* CONFIG_FILE then does not hold its document; and what CONFIG_FILE holds
\* after a rename is the complete payload of one call.
C38_SaveResult ==
  [][ \A h \in handlers :
        rename(h) =>
          LET document == Some(saveConfig(h.body[1]))
          IN /\ tmpFile # Absent => file' = document
             /\ tmpFile = Absent => file' # document
             /\ file' # Truncated ]_vars

\* C39: a discarded draft is not resurrected by the save of another thread.
\* When the save timer of a thread fires, a thread that has no committed
\* draft (it was discarded, or never saved) has none afterwards either,
\* whenever that timer was started.
C39_NoResurrection ==
  [][ \A t \in draftTimers :
        draftTimeout(t) =>
          \A A \in ThreadIds \ {t.threadId} :
            Field(config.drafts, A) = Absent => Field(config'.drafts, A) = Absent ]_vars
====
